---- MODULE Spec2Model ----
(***************************************************************************)
(* Document-analysis core of Painel-de-Comando: the SQLite store           *)
(* (ai/analysis_queue.py), the background worker and scanner               *)
(* (ai/background_worker.py), the naming step of the classifier            *)
(* (ai/document_analyzer.py) and the notification handlers (app.py).       *)
(*                                                                         *)
(* The specifications share the variables:                                 *)
(*   StoreSpec  the store's suggestion operations, called in any order;    *)
(*   ApiSpec    the approve / reject / approve-batch request handlers;     *)
(*   Spec       the application as app.py wires it: the worker loop,       *)
(*              scheduled and ad-hoc scanner passes, the drain;            *)
(*   LifeSpec   the worker's life cycle, stop() included;                  *)
(*   FairLifeSpec  LifeSpec with the scheduling of the threads;            *)
(*   FaultSpec  the worker loop with its scheduled pass over a store and   *)
(*              a classifier whose calls may fail;                         *)
(*   FairFaultSpec  FaultSpec with the scheduling of the threads;          *)
(*   ProgressSpec  the progress snapshot, its writers and its reader;      *)
(*   NameSpec   the classifier called on a file name;                      *)
(*   FolderSpec the classifier called on a document of a folder listing,   *)
(*              content first;                                             *)
(*   ListSpec   one folder listing of the storage manager, page by page,   *)
(*              with requests that fail;                                   *)
(*   QuerySpec  the queue and the cache of the store, written and queried  *)
(*              by a client in any order;                                  *)
(*   IdentifySpec  identify_document_type called on file names that may    *)
(*              hold the text of a pattern;                                *)
(*   CleanSpec  _clean_employee_name called on names with and without a    *)
(*              leading code;                                              *)
(*   RetrySpec, FairRetrySpec  the drain over a stored queue longer than   *)
(*              a batch, with rows whose classification always raises.     *)
(***************************************************************************)
EXTENDS Integers, Sequences, FiniteSets, TLC

\* ------------------------------------------------------------------ bounds
\* Largest AUTOINCREMENT id the suggestion table hands out in a run.
MaxSuggestionSeq == 2
\* Largest number of ids in one approve-batch request.
MaxBatchIds == 1

\* Worker loop threads start() may create in a run.
MaxLoops == 2
\* Ad-hoc scanner threads POST /api/notifications/scan-all may create.
MaxAdhocScans == 1
\* Last tick of the wall clock.
MaxTime == 1
\* Failures (a store call that fails, a classification that raises) the
\* environment injects in a run.
MaxFaults == 1
\* Most add_log calls of a run: more than the rolling log holds.
MaxLogCalls == 102
\* Most "total_scanned += 1" statements begun in a run.
MaxIncrements == 2
\* Most tokens of a file name the classifier is called with.
MaxNameLen == 5
\* Most keywords of the content classifier a document's text holds.
MaxKeywords == 2
\* Most items of the folder list_files_in_shared_drive lists, and the
\* greatest max_results it is called with.
MaxItems == 3
\* Most items of one page of files().list: the 1000 of
\* min(max_results, 1000), scaled to the folders of the model.
MaxPageSize == 2
\* Greatest limit get_pending_documents is called with by a client.
MaxLimit == 2
\* Most tokens of a file name identify_document_type is called with alone.
MaxIdentifyLen == 3
\* Most words of an employee name _clean_employee_name is called with.
MaxCleanLen == 5
\* What is kept of the history that grows with every retry of a failing
\* row: the last rows of the log, the count of analyses up to this number.
MaxRetriesKept == 2

\* --------------------------------------------------------------- constants
\* DocumentAnalysisWorker.scan_interval, in clock ticks: the clock of the
\* model counts scan intervals (one tick is the 300 s of scan_interval).
scan_interval == 1
\* Default batch_size of _process_batch.
batch_size == 5
\* Most lines ScanProgress.logs keeps.
LogLimit == 100
\* Most lines of the log get_status returns.
StatusLogs == 20
\* DriveManager.max_retries, the attempts _retry_on_error makes.
max_retries == 3

\* ------------------------------------------------------------- value sets
\* File ids of the storage tree, in the order a folder listing returns
\* them (list_files_in_shared_drive sorts by name).
FileOrder == <<"f1", "f2">>
Files == {FileOrder[i] : i \in 1..Len(FileOrder)}
\* modifiedTime of a file descriptor; "" is what file.get('modifiedTime', '')
\* yields for a descriptor without the field.
ModTimes == {"", "t1", "t2"}
\* driveFiles value of a file the tree does not hold.
Absent == "absent"
\* Python None / SQL NULL.
None == "None"
\* loaded of a thread that is not inside "total_scanned += 1".
NotLoaded == -1
\* A file name or an employee name is the sequence of its tokens: words,
\* the separator "_" and the dot.
\* Candidate suggested names a caller may pass to save_suggestion.
SuggestedNames == {<<"RG", "_", "Joao", "_", "Santos", ".", "pdf">>,
                   <<"CPF", "_", "Joao", "_", "Santos", ".", "pdf">>}
\* Name the storage provider reports for each file.
DriveFileName(f) == IF f = "f1" THEN <<"CPF", ".", "pdf">>
                    ELSE <<"RG", "_", "Joao", ".", "pdf">>
\* The employee folder the files of the model lie in, "1.0 - João Da Silva
\* Santos": its code and its name.
EmployeeCode == "1.0"
EmployeeName == <<"João", "Da", "Silva", "Santos">>
\* The category subfolder the files of the model lie in.
FolderName == "01 - Documentos Pessoais"
\* Thread ids: worker loop threads, then ad-hoc scanner threads.
LoopIds == 1..MaxLoops
AdhocIds == (MaxLoops + 1)..(MaxLoops + MaxAdhocScans)
Threads == LoopIds \cup AdhocIds
\* Suggestion ids a request may carry (one more than the table can hold,
\* so that an id that never existed is among them).
SuggestionIds == 1..(MaxSuggestionSeq + 1)
\* The values the status column of rename_suggestions takes.
SuggestionStatuses == {"pending", "approved", "rejected", "applied", "failed"}

VARIABLES
    pending_analysis,     \* table pending_analysis, rows in rowid order
    rename_suggestions,   \* table rename_suggestions, a set of rows
    suggestion_seq,       \* sqlite_sequence of rename_suggestions (last id used)
    processing_log,       \* table processing_log, rows in rowid order
    analyzed_cache,       \* table analyzed_cache, a set of rows keyed by file_id
    running,              \* DocumentAnalysisWorker.running
    thread,               \* DocumentAnalysisWorker.thread: 0 (None) or a loop id
    drive_manager,        \* DocumentAnalysisWorker.drive_manager is set
    drive_id,             \* drive_id and employees_folder_id are set
    last_scan_time,       \* DocumentAnalysisWorker.last_scan_time, -1 for None
    pc,                   \* position of each loop / scanner thread
    current_time,         \* local current_time of each loop thread
    files,                \* local: file descriptors a scan still has to visit
    pending,              \* local: rows a drain batch still has to handle
    joining,              \* a stop() call is inside thread.join(timeout=5)
    scan_progress,        \* the ScanProgress singleton
    driveFiles,           \* storage provider: modifiedTime of each file of
                          \* the tree ("" when its descriptor has none)
    now,                  \* wall clock, in ticks
    analyzed_time,        \* history: modifiedTime each file had when
                          \* _analyze_document last handled it
    faults,               \* environment: failures injected so far
    logs,                 \* ScanProgress.logs, the rolling log (kept by the
                          \* specifications of the progress snapshot; the
                          \* worker specifications leave the log texts out)
    loaded,               \* per thread: the total_scanned it has read and
                          \* not yet written back inside "+= 1"
    increments,           \* history: "total_scanned += 1" statements done
    status_reply,         \* the dict a get_status call in flight returned,
                          \* as a list of at most one
    name_call,            \* arguments of the classifier call under test
    name_result,          \* what the classifier returned for name_call,
                          \* as a list of at most one
    list_call,            \* arguments of the list_files_in_shared_drive
                          \* call under test, with the folder's content
    list_pc,              \* where that call is
    all_files,            \* its local all_files
    page_token,           \* its local page_token: items already returned
                          \* (0 is None)
    attempt,              \* history: files().list().execute() calls made
                          \* for the page being fetched
    last_error,           \* history: the error the call caught
    list_result,          \* what the call returned, as a list of at most
                          \* one
    query,                \* the query a client of the store made last
    query_result,         \* what it returned, as a list of at most one
    failing_files,        \* environment: the file ids whose classification
                          \* raises at every attempt
    response,             \* what the last store call returned ("True",
                          \* "False") or the HTTP status of the last request
    request               \* the approve / approve-batch request in flight

storeVars == <<pending_analysis, rename_suggestions, suggestion_seq,
               processing_log, analyzed_cache>>
apiVars == <<response, request>>
workerVars == <<running, thread, drive_manager, drive_id, last_scan_time, pc,
                current_time, files, pending, joining, scan_progress,
                driveFiles, now, analyzed_time, faults>>
progressVars == <<logs, loaded, increments, status_reply>>
nameVars == <<name_call, name_result>>
listVars == <<list_call, list_pc, all_files, page_token, attempt, last_error,
              list_result>>
queryVars == <<query, query_result>>
starveVars == <<failing_files>>
auxVars == <<progressVars, nameVars, listVars, queryVars, starveVars>>
vars == <<storeVars, apiVars, workerVars, auxVars>>

\* The calls of _analyze_document that can fail.
AnalysisCalls == {"classify", "save_suggestion", "mark_as_analyzed"}
\* No approve request in flight.
NoRequest == [handler |-> "none", ids |-> <<>>, renaming |-> {}]
\* Values of approved_by a caller passes.
Approvers == {"system"}
\* What drive_manager.rename_file does: returns True, returns False, raises.
RenameOutcomes == {"renamed", "refused", "raised"}

\* ------------------------------------------------------- store operations
\* Rows of rename_suggestions with the given id (at most one).
get_suggestion(tbl, suggestion_id) == {r \in tbl : r.id = suggestion_id}

\* save_suggestion as a plain INSERT into a table without UNIQUE(file_id):
\* the earlier row of the file stays.
save_suggestion_KeepsOldRow(tbl, seq, s) ==
    tbl \cup
    {[id |-> seq + 1,
      file_id |-> s.file_id,
      original_name |-> s.original_name,
      suggested_name |-> s.suggested_name,
      status |-> "pending",
      approved_by |-> None]}

\* INSERT OR REPLACE under UNIQUE(file_id): the row of the same file_id is
\* deleted and a new row is inserted with a fresh AUTOINCREMENT id; the
\* columns the statement does not list take their defaults.
save_suggestion(tbl, seq, s) ==
    {r \in tbl : r.file_id # s.file_id} \cup
    {[id |-> seq + 1,
      file_id |-> s.file_id,
      original_name |-> s.original_name,
      suggested_name |-> s.suggested_name,
      status |-> "pending",
      approved_by |-> None]}

\* SELECT * FROM rename_suggestions WHERE status = 'pending'.
get_pending_suggestions(tbl) == {r \in tbl : r.status = "pending"}

\* UPDATE ... SET status = 'approved', approved_by = ? WHERE id = ?
approve_suggestion(tbl, suggestion_id, approved_by) ==
    {IF r.id = suggestion_id
        THEN [r EXCEPT !.status = "approved", !.approved_by = approved_by]
        ELSE r : r \in tbl}

\* UPDATE ... SET status = 'rejected' WHERE id = ?
reject_suggestion(tbl, suggestion_id) ==
    {IF r.id = suggestion_id THEN [r EXCEPT !.status = "rejected"] ELSE r
        : r \in tbl}

\* UPDATE ... SET status = ? WHERE id = ?
update_suggestion_status(tbl, suggestion_id, status) ==
    {IF r.id = suggestion_id THEN [r EXCEPT !.status = status] ELSE r
        : r \in tbl}

\* add_to_queue as a plain INSERT into a table without UNIQUE(file_id).
add_to_queue_PlainInsert(tbl, file_id, file_name) ==
    Append(tbl, [file_id |-> file_id, file_name |-> file_name,
                 status |-> "pending"])

\* The insert as INSERT OR REPLACE: the row of the file_id is deleted and
\* a new one appended, with the default status.
add_to_queue_Replace(tbl, file_id, file_name) ==
    Append(SelectSeq(tbl, LAMBDA r : r.file_id # file_id),
           [file_id |-> file_id, file_name |-> file_name, status |-> "pending"])

\* INSERT OR IGNORE under UNIQUE(file_id): a row is appended, with the
\* default status, only when the table holds none for the file_id.
add_to_queue(tbl, file_id, file_name) ==
    IF \E i \in 1..Len(tbl) : tbl[i].file_id = file_id
        THEN tbl
        ELSE Append(tbl, [file_id |-> file_id, file_name |-> file_name,
                          status |-> "pending"])

\* First n elements of a sequence.
Take(seq, n) == SubSeq(seq, 1, IF Len(seq) < n THEN Len(seq) ELSE n)

\* The SELECT of get_pending_documents without its WHERE clause.
get_pending_documents_NoFilter(tbl, limit) == Take(tbl, limit)

\* SELECT * FROM pending_analysis WHERE status = 'pending'
\* ORDER BY added_at ASC LIMIT ?
get_pending_documents(tbl, limit) ==
    Take(SelectSeq(tbl, LAMBDA r : r.status = "pending"), limit)

\* mark_as_processed without its UPDATE.
mark_as_processed_NoUpdate(tbl, file_id) == tbl

\* UPDATE pending_analysis SET status = 'processed' WHERE file_id = ?
mark_as_processed(tbl, file_id) ==
    [i \in 1..Len(tbl) |->
        IF tbl[i].file_id = file_id
            THEN [tbl[i] EXCEPT !.status = "processed"]
            ELSE tbl[i]]

\* The log kept as one row per file_id: the earlier row of the file is
\* replaced.
log_processing_OneRowPerFile(tbl, file_id, action) ==
    Append(SelectSeq(tbl, LAMBDA r : r.file_id # file_id),
           [file_id |-> file_id, action |-> action])

\* INSERT INTO processing_log (file_id, action, details).
log_processing(tbl, file_id, action) ==
    Append(tbl, [file_id |-> file_id, action |-> action])

\* is_already_analyzed without the test of modified_time.
is_already_analyzed_IgnoresTime(tbl, file_id, modified_time) ==
    \E r \in tbl : r.file_id = file_id

\* is_already_analyzed: False without a cache row; False when a non-empty
\* modified_time is passed and differs from the stored one; else True.
is_already_analyzed(tbl, file_id, modified_time) ==
    IF ~ \E r \in tbl : r.file_id = file_id
        THEN FALSE
        ELSE IF /\ modified_time \notin {"", None}
                /\ \E r \in tbl : r.file_id = file_id /\ r.modified_time # modified_time
        THEN FALSE
        ELSE TRUE

\* INSERT OR REPLACE INTO analyzed_cache, file_id being the primary key.
mark_as_analyzed(tbl, file_id, file_name, modified_time, needs_rename) ==
    {r \in tbl : r.file_id # file_id} \cup
    {[file_id |-> file_id, file_name |-> file_name,
      modified_time |-> modified_time, needs_rename |-> needs_rename]}

\* --------------------------------------------------------------- classifier
\* Folder names that are keys of DOCUMENT_SCHEMAS (the one the model uses).
SchemaFolders == {"01 - Documentos Pessoais"}
\* The template every schema entry has,
\* '{tipo}_{nome_completo}{validade}.{ext}': replacement fields and text.
SchemaTemplate ==
    <<[kind |-> "field", name |-> "tipo"],
      [kind |-> "text", name |-> "_"],
      [kind |-> "field", name |-> "nome_completo"],
      [kind |-> "field", name |-> "validade"],
      [kind |-> "text", name |-> "."],
      [kind |-> "field", name |-> "ext"]>>
\* Replacement fields of the template.
TemplateFields ==
    {SchemaTemplate[i].name :
        i \in {k \in 1..Len(SchemaTemplate) : SchemaTemplate[k].kind = "field"}}
\* Keyword arguments generate_standardized_name passes to template.format.
FormatArguments == {"tipo", "codigo_func", "nome_func", "ano", "data",
                    "periodo", "nome_dependente"}

\* str.lower() of a token.
Lower(token) ==
    CASE token = "RG" -> "rg"
      [] token = "CPF" -> "cpf"
      [] token = "Joao" -> "joao"
      [] token = "João" -> "joão"
      [] token = "Da" -> "da"
      [] token = "Silva" -> "silva"
      [] token = "Santos" -> "santos"
      [] token = "(CPF|CADASTRO DE PESSOA)" -> "(cpf|cadastro de pessoa)"
      [] OTHER -> token

\* Document types of the folder in dict order, each with the literal
\* alternatives of its pattern that the file names of the model can hold.
PatternOrder == <<"RG", "CPF">>
PatternAlternatives(doc_type) ==
    IF doc_type = "RG" THEN {"rg", "identidade"} ELSE {"cpf"}
\* The tokens of the lower-cased file name (no token of the model holds an
\* alternative as a proper part).
NameLiterals(filename) == {Lower(filename[i]) : i \in 1..Len(filename)}

\* The pattern of a type as written in DOCUMENT_SCHEMAS.
PatternText(doc_type) ==
    IF doc_type = "RG"
        THEN "(rg|identidade|carteira de identidade|registro geral)"
        ELSE "(cpf|cadastro de pessoa)"

\* pattern in filename_lower: the text of the pattern occurs in the
\* lower-cased file name.
PatternLiterallyIn(doc_type, filename) ==
    PatternText(doc_type) \in NameLiterals(filename)

\* re.search(pattern, filename_lower, re.IGNORECASE): the name holds an
\* alternative of the pattern, as a token or inside the text of the
\* pattern itself.
PatternMatches(doc_type, filename) ==
    \/ PatternAlternatives(doc_type) \cap NameLiterals(filename) # {}
    \/ PatternLiterallyIn(doc_type, filename)

\* The confidence of a match, in tenths.
MatchConfidence(doc_type, filename) ==
    IF PatternLiterallyIn(doc_type, filename) THEN 8 ELSE 6

\* identify_document_type as "the first type that matches".
identify_document_type_FirstMatch(filename, folder_type) ==
    IF folder_type \notin SchemaFolders
        THEN [doc_type |-> "Desconhecido", confidence |-> 0]
        ELSE LET hits == {i \in 1..Len(PatternOrder) :
                            PatternMatches(PatternOrder[i], filename)}
                 first == CHOOSE i \in hits : \A j \in hits : i <= j
             IN IF hits = {}
                   THEN [doc_type |-> "Desconhecido", confidence |-> 0]
                   ELSE [doc_type |-> PatternOrder[first],
                         confidence |-> MatchConfidence(PatternOrder[first], filename)]

\* The loop over patterns.items(): the best match so far, a later type
\* replacing it only with a greater confidence.
RECURSIVE BestPatternMatch(_, _, _)
BestPatternMatch(filename, i, best) ==
    IF i > Len(PatternOrder) THEN best
    ELSE LET doc_type == PatternOrder[i]
         IN BestPatternMatch(filename, i + 1,
                IF /\ PatternMatches(doc_type, filename)
                   /\ MatchConfidence(doc_type, filename) > best.confidence
                   THEN [doc_type |-> doc_type,
                         confidence |-> MatchConfidence(doc_type, filename)]
                   ELSE best)

\* identify_document_type: Desconhecido with 0.0 for a folder outside the
\* schema or a name no pattern matches; else the earliest type with the
\* best confidence, in tenths.
identify_document_type(filename, folder_type) ==
    IF folder_type \notin SchemaFolders
        THEN [doc_type |-> "Desconhecido", confidence |-> 0]
        ELSE BestPatternMatch(filename, 1,
                 [doc_type |-> "Desconhecido", confidence |-> 0])

\* extract_employee_info: the year, the date and the name after " - " that
\* the regular expressions find in the file name. The names of the model
\* hold no digit and no " - ", so nothing is found.
extract_employee_info(filename) == [key \in {} |-> <<>>]

\* Words _clean_employee_name removes from the middle of a name.
Prepositions == {"de", "da", "do", "dos", "das", "e"}

\* The elements of seq at the positions in keep, in order.
RECURSIVE Pick(_, _, _)
Pick(seq, keep, i) ==
    IF i > Len(seq) THEN <<>>
    ELSE (IF i \in keep THEN <<seq[i]>> ELSE <<>>) \o Pick(seq, keep, i + 1)

\* '_'.join(words).
RECURSIVE Join(_)
Join(words) ==
    IF Len(words) <= 1 THEN words
    ELSE <<Head(words), "_">> \o Join(Tail(words))

\* Words that are a run of digits.
DigitWords == {"12"}
\* re.sub(r'^\d+\s*-\s*', '', full_name): a leading run of digits with
\* the dash after it is removed; a word like "1.0" is no run of digits
\* up to a dash, and stays.
strip_code(full_name) ==
    IF Len(full_name) >= 2 /\ full_name[1] \in DigitWords /\ full_name[2] = "-"
        THEN SubSeq(full_name, 3, Len(full_name))
        ELSE full_name

\* _clean_employee_name: the code is stripped; the first and the last word
\* always stay, a middle word stays unless it is a preposition; of more
\* than three words left only the first and the last stay.
clean_employee_name(full_name) ==
    LET words == strip_code(full_name)
        filtered_words ==
            Pick(words,
                 {i \in 1..Len(words) :
                     i = 1 \/ i = Len(words) \/ Lower(words[i]) \notin Prepositions},
                 1)
    IN Join(IF Len(filtered_words) > 3
               THEN <<filtered_words[1], filtered_words[Len(filtered_words)]>>
               ELSE filtered_words)

\* os.path.splitext(name)[1]: the name from its last dot on, unless only
\* dots precede that dot.
splitext(name) ==
    LET dots == {i \in 1..Len(name) : name[i] = "."}
    IN IF dots = {} THEN <<>>
       ELSE LET last == CHOOSE i \in dots : \A j \in dots : j <= i
            IN IF \E j \in 1..(last - 1) : name[j] # "."
                  THEN SubSeq(name, last, Len(name))
                  ELSE <<>>

\* str.format over the template with the keyword arguments given.
RECURSIVE Format(_, _)
Format(template, arguments) ==
    IF template = <<>> THEN <<>>
    ELSE LET part == Head(template)
         IN (IF part.kind = "field" THEN arguments[part.name] ELSE <<part.name>>)
               \o Format(Tail(template), arguments)

\* re.sub(r'_{2,}', '_', name).
RECURSIVE CollapseSeparators(_)
CollapseSeparators(name) ==
    IF Len(name) <= 1 THEN name
    ELSE IF name[1] = "_" /\ name[2] = "_"
        THEN CollapseSeparators(Tail(name))
        ELSE <<Head(name)>> \o CollapseSeparators(Tail(name))

\* name.strip('_').
RECURSIVE StripSeparators(_)
StripSeparators(name) ==
    IF name = <<>> THEN name
    ELSE IF name[1] = "_" THEN StripSeparators(Tail(name))
    ELSE IF name[Len(name)] = "_"
        THEN StripSeparators(SubSeq(name, 1, Len(name) - 1))
        ELSE name

\* name.endswith(suffix).
EndsWith(name, suffix) ==
    /\ Len(suffix) <= Len(name)
    /\ SubSeq(name, Len(name) - Len(suffix) + 1, Len(name)) = suffix

\* datetime.now().strftime('%Y-%m-%d'), as one token.
Today == "today"

\* generate_standardized_name with every field the template names and
\* format is not given filled with the empty text, and no fallback.
generate_standardized_name_NoFallback(doc_type, folder_type, employee_code, employee_name, original_filename) ==
    IF folder_type \notin SchemaFolders
        THEN original_filename
        ELSE LET ext == splitext(original_filename)
                 arguments ==
                     [key \in FormatArguments \cup TemplateFields |->
                         CASE key = "tipo" -> <<doc_type>>
                           [] key = "codigo_func" -> <<employee_code>>
                           [] key = "nome_func" -> clean_employee_name(employee_name)
                           [] key = "data" -> <<Today>>
                           [] OTHER -> <<>>]
                 new_name ==
                     StripSeparators(CollapseSeparators(
                         Format(SchemaTemplate, arguments)))
             IN IF EndsWith(new_name, ext) THEN new_name ELSE new_name \o ext

\* generate_standardized_name: the original name for a folder outside the
\* schema, and when template.format raises KeyError for a replacement
\* field that is not among its keyword arguments; else the formatted name
\* with runs of separators collapsed, outer separators stripped and the
\* extension of the original appended unless the name ends with it.
generate_standardized_name(doc_type, folder_type, employee_code, employee_name, original_filename) ==
    IF folder_type \notin SchemaFolders
        THEN original_filename
        ELSE LET info == extract_employee_info(original_filename)
                 nome_limpo == clean_employee_name(employee_name)
                 ext == splitext(original_filename)
                 get(key, default) ==
                     IF key \in DOMAIN info THEN info[key] ELSE default
                 arguments ==
                     [key \in FormatArguments |->
                         CASE key = "tipo" -> <<doc_type>>
                           [] key = "codigo_func" -> <<employee_code>>
                           [] key = "nome_func" -> nome_limpo
                           [] key = "ano" -> get("ano", <<>>)
                           [] key = "data" -> get("data", <<Today>>)
                           [] key = "periodo" -> get("periodo", <<>>)
                           [] key = "nome_dependente" -> get("nome_dependente", <<>>)]
             IN IF ~ (TemplateFields \subseteq DOMAIN arguments)
                   THEN original_filename
                   ELSE LET new_name ==
                                StripSeparators(CollapseSeparators(
                                    Format(SchemaTemplate, arguments)))
                        IN IF EndsWith(new_name, ext)
                              THEN new_name
                              ELSE new_name \o ext

\* The rows a pending_analysis table may hold when the process starts: the
\* database file outlives the process (CREATE TABLE IF NOT EXISTS), so a
\* row an earlier run enqueued and did not analyze is still pending.
StoredPending ==
    {<<>>,
     <<[file_id |-> "f2", file_name |-> DriveFileName("f2"), status |-> "pending"]>>}

\* The state after the module-level construction of analysis_queue,
\* document_worker and scan_progress.
Constructed ==
    /\ pending_analysis \in StoredPending
    /\ rename_suggestions = {}
    /\ suggestion_seq = 0
    /\ processing_log = <<>>
    /\ analyzed_cache = {}
    /\ response = "none"
    /\ request = NoRequest
    /\ running = FALSE
    /\ thread = 0
    /\ drive_manager = FALSE
    /\ drive_id = FALSE
    /\ last_scan_time = -1
    /\ pc = [t \in Threads |-> "unborn"]
    /\ current_time = [t \in LoopIds |-> 0]
    /\ files = [t \in Threads |-> <<>>]
    /\ pending = [t \in LoopIds |-> <<>>]
    /\ joining = FALSE
    /\ scan_progress = [is_scanning |-> FALSE, total_employees |-> 0,
                        current_employee_index |-> 0, total_scanned |-> 0,
                        total_analyzed |-> 0, total_suggestions |-> 0]
    /\ driveFiles = [f \in Files |-> IF f = "f1" THEN "" ELSE "t1"]
    /\ now = 0
    /\ analyzed_time = [f \in Files |-> None]
    /\ faults = 0
    /\ logs = <<>>
    /\ loaded = [t \in Threads |-> NotLoaded]
    /\ increments = 0
    /\ status_reply = <<>>

\* No list_files_in_shared_drive call under test.
ListIdle ==
    /\ list_call = <<>>
    /\ list_pc = "idle"
    /\ all_files = <<>>
    /\ page_token = 0
    /\ attempt = 0
    /\ last_error = None
    /\ list_result = <<>>

\* No query of the store made yet.
NoQuery == [op |-> "none"]
QueryIdle ==
    /\ query = NoQuery
    /\ query_result = <<>>

\* The application after construction, no classifier call under test.
Init ==
    /\ Constructed
    /\ name_call = None
    /\ name_result = <<>>
    /\ ListIdle
    /\ QueryIdle
    /\ failing_files = {}

\* ------------------------------------------------ store calls by a client
\* analysis_queue.save_suggestion(suggestion): returns True.
SaveSuggestion(f, name) ==
    /\ suggestion_seq < MaxSuggestionSeq
    /\ rename_suggestions' =
          save_suggestion(rename_suggestions, suggestion_seq,
                          [file_id |-> f, original_name |-> DriveFileName(f),
                           suggested_name |-> name])
    /\ suggestion_seq' = suggestion_seq + 1
    /\ response' = "True"
    /\ UNCHANGED <<pending_analysis, processing_log, analyzed_cache, request>>
    /\ UNCHANGED workerVars
    /\ UNCHANGED auxVars

\* analysis_queue.approve_suggestion(suggestion_id, approved_by): the UPDATE
\* matches zero or one row and the method returns True either way.
ApproveSuggestion(i, by) ==
    /\ rename_suggestions' = approve_suggestion(rename_suggestions, i, by)
    /\ response' = "True"
    /\ UNCHANGED <<pending_analysis, suggestion_seq, processing_log,
                   analyzed_cache, request>>
    /\ UNCHANGED workerVars
    /\ UNCHANGED auxVars

\* analysis_queue.reject_suggestion(suggestion_id): returns True.
RejectSuggestion(i) ==
    /\ rename_suggestions' = reject_suggestion(rename_suggestions, i)
    /\ response' = "True"
    /\ UNCHANGED <<pending_analysis, suggestion_seq, processing_log,
                   analyzed_cache, request>>
    /\ UNCHANGED workerVars
    /\ UNCHANGED auxVars

\* analysis_queue.update_suggestion_status(suggestion_id, status): returns True.
UpdateSuggestionStatus(i, st) ==
    /\ rename_suggestions' = update_suggestion_status(rename_suggestions, i, st)
    /\ response' = "True"
    /\ UNCHANGED <<pending_analysis, suggestion_seq, processing_log,
                   analyzed_cache, request>>
    /\ UNCHANGED workerVars
    /\ UNCHANGED auxVars

\* -------------------------------------------------- notification handlers
\* POST /api/notifications/approve up to the rename call: 503 without a
\* drive service, 404 when get_suggestion finds no row, else the rename of
\* the row read is under way.
api_approve_suggestion(i, drive_ok) ==
    /\ request = NoRequest
    /\ IF ~drive_ok
         THEN /\ response' = "503"
              /\ UNCHANGED request
         ELSE IF get_suggestion(rename_suggestions, i) = {}
         THEN /\ response' = "404"
              /\ UNCHANGED request
         ELSE /\ request' = [handler |-> "approve", ids |-> <<i>>,
                             renaming |-> get_suggestion(rename_suggestions, i)]
              /\ UNCHANGED response
    /\ UNCHANGED storeVars
    /\ UNCHANGED workerVars
    /\ UNCHANGED auxVars

\* The rest of the approve handler: rename_file returned True, returned
\* False or raised; the status becomes applied or failed accordingly.
api_approve_rename_done(outcome) ==
    /\ request.handler = "approve"
    /\ LET i == Head(request.ids)
       IN /\ rename_suggestions' =
                update_suggestion_status(rename_suggestions, i,
                    IF outcome = "renamed" THEN "applied" ELSE "failed")
          /\ response' = IF outcome = "renamed" THEN "200" ELSE "500"
    /\ request' = NoRequest
    /\ UNCHANGED <<pending_analysis, suggestion_seq, processing_log, analyzed_cache>>
    /\ UNCHANGED workerVars
    /\ UNCHANGED auxVars

\* POST /api/notifications/reject: no lookup, the status update is issued
\* and success is returned.
api_reject_suggestion(i) ==
    /\ rename_suggestions' = update_suggestion_status(rename_suggestions, i, "rejected")
    /\ response' = "200"
    /\ UNCHANGED <<pending_analysis, suggestion_seq, processing_log,
                   analyzed_cache, request>>
    /\ UNCHANGED workerVars
    /\ UNCHANGED auxVars

\* POST /api/notifications/approve-batch, entry: 400 on an empty list, 503
\* without a drive service, else the loop over the ids starts.
api_approve_batch(ids, drive_ok) ==
    /\ request = NoRequest
    /\ IF ids = <<>>
         THEN /\ response' = "400"
              /\ UNCHANGED request
         ELSE IF ~drive_ok
         THEN /\ response' = "503"
              /\ UNCHANGED request
         ELSE /\ request' = [handler |-> "batch", ids |-> ids, renaming |-> {}]
              /\ UNCHANGED response
    /\ UNCHANGED storeVars
    /\ UNCHANGED workerVars
    /\ UNCHANGED auxVars

\* One iteration of the batch loop up to the rename call: an id without a
\* row is counted not_found and skipped.
api_approve_batch_lookup ==
    /\ request.handler = "batch"
    /\ request.renaming = {}
    /\ request.ids # <<>>
    /\ LET sug == get_suggestion(rename_suggestions, Head(request.ids))
       IN request' = IF sug = {}
                        THEN [request EXCEPT !.ids = Tail(@)]
                        ELSE [request EXCEPT !.renaming = sug]
    /\ UNCHANGED response
    /\ UNCHANGED storeVars
    /\ UNCHANGED workerVars
    /\ UNCHANGED auxVars

\* The rest of the iteration: the rename returned or raised.
api_approve_batch_rename_done(outcome) ==
    /\ request.handler = "batch"
    /\ request.renaming # {}
    /\ rename_suggestions' =
          update_suggestion_status(rename_suggestions, Head(request.ids),
              IF outcome = "renamed" THEN "applied" ELSE "failed")
    /\ request' = [request EXCEPT !.ids = Tail(@), !.renaming = {}]
    /\ UNCHANGED response
    /\ UNCHANGED <<pending_analysis, suggestion_seq, processing_log, analyzed_cache>>
    /\ UNCHANGED workerVars
    /\ UNCHANGED auxVars

\* The batch loop is over: the results are returned.
api_approve_batch_return ==
    /\ request.handler = "batch"
    /\ request.renaming = {}
    /\ request.ids = <<>>
    /\ response' = "200"
    /\ request' = NoRequest
    /\ UNCHANGED storeVars
    /\ UNCHANGED workerVars
    /\ UNCHANGED auxVars

\* Id lists of an approve-batch request.
BatchIdLists ==
    UNION {[1..n -> SuggestionIds] : n \in 0..MaxBatchIds}

\* The store's suggestion operations, called in any order.
StoreNext ==
    \/ \E f \in Files, name \in SuggestedNames : SaveSuggestion(f, name)
    \/ \E i \in SuggestionIds, by \in Approvers : ApproveSuggestion(i, by)
    \/ \E i \in SuggestionIds : RejectSuggestion(i)
    \/ \E i \in SuggestionIds, st \in SuggestionStatuses : UpdateSuggestionStatus(i, st)

StoreSpec == Init /\ [][StoreNext]_vars

\* The notification handlers, serving requests in any order over the
\* suggestions a worker saves.
ApiNext ==
    \/ \E f \in Files, name \in SuggestedNames : SaveSuggestion(f, name)
    \/ \E i \in SuggestionIds, drive_ok \in BOOLEAN : api_approve_suggestion(i, drive_ok)
    \/ \E outcome \in RenameOutcomes : api_approve_rename_done(outcome)
    \/ \E i \in SuggestionIds : api_reject_suggestion(i)
    \/ \E ids \in BatchIdLists, drive_ok \in BOOLEAN : api_approve_batch(ids, drive_ok)
    \/ api_approve_batch_lookup
    \/ \E outcome \in RenameOutcomes : api_approve_batch_rename_done(outcome)
    \/ api_approve_batch_return

ApiSpec == Init /\ [][ApiNext]_vars

\* ------------------------------------------------------- progress reporter
\* ScanProgress.start(): every counter is reset and is_scanning set.
progress_start(p) ==
    [is_scanning |-> TRUE, total_employees |-> 0, current_employee_index |-> 0,
     total_scanned |-> 0, total_analyzed |-> 0, total_suggestions |-> 0]

\* ScanProgress.finish().
progress_finish(p) == [p EXCEPT !.is_scanning = FALSE]

\* --------------------------------------------------------- worker methods
\* DocumentAnalysisWorker.set_drive_manager(drive_manager).
set_drive_manager ==
    /\ drive_manager' = TRUE
    /\ UNCHANGED <<running, thread, drive_id, last_scan_time, pc, current_time,
                   files, pending, joining, scan_progress, driveFiles, now,
                   analyzed_time, faults>>
    /\ UNCHANGED <<storeVars, apiVars>>
    /\ UNCHANGED auxVars

\* DocumentAnalysisWorker.configure_auto_scan(drive_id, employees_folder_id).
configure_auto_scan ==
    /\ drive_id' = TRUE
    /\ UNCHANGED <<running, thread, drive_manager, last_scan_time, pc,
                   current_time, files, pending, joining, scan_progress,
                   driveFiles, now, analyzed_time, faults>>
    /\ UNCHANGED <<storeVars, apiVars>>
    /\ UNCHANGED auxVars

\* The loop id the next thread gets.
NextLoopId == CHOOSE l \in LoopIds :
                 pc[l] = "unborn" /\ \A k \in LoopIds : pc[k] = "unborn" => l <= k

\* start() without the test of running: every call starts a thread.
start_NoRunningCheck ==
    /\ \E l \in LoopIds : pc[l] = "unborn"
    /\ running' = TRUE
    /\ thread' = NextLoopId
    /\ pc' = [pc EXCEPT ![NextLoopId] = "loop"]
    /\ UNCHANGED <<drive_manager, drive_id, last_scan_time, current_time,
                   files, pending, joining, scan_progress, driveFiles, now,
                   analyzed_time, faults>>
    /\ UNCHANGED <<storeVars, apiVars>>
    /\ UNCHANGED auxVars

\* DocumentAnalysisWorker.start(): returns at once when running is set,
\* else sets it and starts a thread on _worker_loop.
start ==
    IF running
        THEN UNCHANGED vars
        ELSE /\ \E l \in LoopIds : pc[l] = "unborn"
             /\ running' = TRUE
             /\ thread' = NextLoopId
             /\ pc' = [pc EXCEPT ![NextLoopId] = "loop"]
             /\ UNCHANGED <<drive_manager, drive_id, last_scan_time,
                            current_time, files, pending, joining,
                            scan_progress, driveFiles, now, analyzed_time, faults>>
             /\ UNCHANGED <<storeVars, apiVars>>
    /\ UNCHANGED auxVars

\* DocumentAnalysisWorker.stop() up to the join: running is cleared and,
\* with a thread handle, the caller waits in thread.join(timeout=5).
stop ==
    /\ ~joining
    /\ running' = FALSE
    /\ joining' = (thread # 0)
    /\ UNCHANGED <<thread, drive_manager, drive_id, last_scan_time, pc,
                   current_time, files, pending, scan_progress, driveFiles,
                   now, analyzed_time, faults>>
    /\ UNCHANGED <<storeVars, apiVars>>
    /\ UNCHANGED auxVars

\* thread.join(timeout=5) returns: the thread ended, or 5 s went by.
stop_join_returns ==
    /\ joining
    /\ joining' = FALSE
    /\ UNCHANGED <<running, thread, drive_manager, drive_id, last_scan_time,
                   pc, current_time, files, pending, scan_progress,
                   driveFiles, now, analyzed_time, faults>>
    /\ UNCHANGED <<storeVars, apiVars>>
    /\ UNCHANGED auxVars

\* POST /api/notifications/scan-all with a drive service: the drive manager
\* is handed to the worker and a thread is started on scan_employee_folders.
\* The threads are interchangeable; they get their ids in order.
api_scan_all_documents(t) ==
    /\ pc[t] = "unborn"
    /\ \A u \in AdhocIds : u < t => pc[u] # "unborn"
    /\ drive_manager' = TRUE
    /\ pc' = [pc EXCEPT ![t] = "scan_start"]
    /\ UNCHANGED <<running, thread, drive_id, last_scan_time, current_time,
                   files, pending, joining, scan_progress, driveFiles, now,
                   analyzed_time, faults>>
    /\ UNCHANGED <<storeVars, apiVars>>
    /\ UNCHANGED auxVars

\* ------------------------------------------------------------ worker loop
\* The schedule test without the test of drive_id / employees_folder_id.
scan_due_IgnoresConfig(time) ==
    \/ last_scan_time = -1
    \/ time - last_scan_time >= scan_interval

\* The schedule test without the test of the time elapsed.
scan_due_IgnoresInterval(time) == drive_id

\* Whether the scheduled scan is due at time `time`.
scan_due(time) ==
    /\ drive_id
    /\ \/ last_scan_time = -1
       \/ time - last_scan_time >= scan_interval

\* The loop as `while True`: running is never read.
worker_loop_IgnoresRunning(l) ==
    /\ pc[l] = "loop"
    /\ IF scan_due(now)
         THEN /\ pc' = [pc EXCEPT ![l] = "scan_start"]
              /\ current_time' = [current_time EXCEPT ![l] = now]
         ELSE /\ pc' = [pc EXCEPT ![l] = "drain"]
              /\ UNCHANGED current_time
    /\ UNCHANGED <<running, thread, drive_manager, drive_id, last_scan_time,
                   files, pending, joining, scan_progress, driveFiles, now,
                   analyzed_time, faults>>
    /\ UNCHANGED <<storeVars, apiVars>>
    /\ UNCHANGED auxVars

\* _worker_loop, from the `while self.running` test to the call it leads
\* to: the thread ends, enters scan_employee_folders, or goes to the drain.
worker_loop(l) ==
    /\ pc[l] = "loop"
    /\ IF ~running
         THEN /\ pc' = [pc EXCEPT ![l] = "dead"]
              /\ UNCHANGED current_time
         ELSE IF scan_due(now)
         THEN /\ pc' = [pc EXCEPT ![l] = "scan_start"]
              /\ current_time' = [current_time EXCEPT ![l] = now]
         ELSE /\ pc' = [pc EXCEPT ![l] = "drain"]
              /\ UNCHANGED current_time
    /\ UNCHANGED <<running, thread, drive_manager, drive_id, last_scan_time,
                   files, pending, joining, scan_progress, driveFiles, now,
                   analyzed_time, faults>>
    /\ UNCHANGED <<storeVars, apiVars>>
    /\ UNCHANGED auxVars

\* Where a thread goes when scan_employee_folders returns: a loop thread
\* records the current_time it took before the scan as last_scan_time and
\* drains, an ad-hoc thread ends.
scan_returns(t, p) ==
    /\ pc' = [pc EXCEPT ![t] = IF t \in LoopIds THEN "drain" ELSE "dead"]
    /\ last_scan_time' = IF t \in LoopIds THEN current_time[t] ELSE last_scan_time
    /\ current_time' = [l \in LoopIds |-> IF l = t THEN 0 ELSE current_time[l]]
    /\ scan_progress' = p

\* scan_employee_folders, entry: without a drive manager it returns at
\* once; else the progress snapshot is reset.
scan_start(t) ==
    /\ pc[t] = "scan_start"
    /\ IF ~drive_manager
         THEN scan_returns(t, scan_progress)
         ELSE /\ scan_progress' = progress_start(scan_progress)
              /\ pc' = [pc EXCEPT ![t] = "scan_employees"]
              /\ UNCHANGED <<last_scan_time, current_time>>
    /\ UNCHANGED <<running, thread, drive_manager, drive_id, files, pending,
                   joining, driveFiles, now, analyzed_time, faults>>
    /\ UNCHANGED <<storeVars, apiVars>>
    /\ UNCHANGED auxVars

\* The employee folders of the tree: one, holding the category folder
\* with the files, or none when the tree holds no file.
EmployeeFolders == IF \E f \in Files : driveFiles[f] # Absent THEN 1 ELSE 0

\* The listing of the employees folder: the employee folders, or nothing
\* when list_files_in_shared_drive caught an error and returned no folders;
\* with no folder the pass finishes.
scan_list_employees(t, listed) ==
    /\ pc[t] = "scan_employees"
    /\ IF listed /\ EmployeeFolders > 0
         THEN /\ scan_progress' =
                    [scan_progress EXCEPT !.total_employees = EmployeeFolders]
              /\ pc' = [pc EXCEPT ![t] = "scan_employee"]
              /\ UNCHANGED <<last_scan_time, current_time>>
         ELSE scan_returns(t, progress_finish(
                  [scan_progress EXCEPT !.total_employees = 0]))
    /\ UNCHANGED <<running, thread, drive_manager, drive_id, files, pending,
                   joining, driveFiles, now, analyzed_time, faults>>
    /\ UNCHANGED <<storeVars, apiVars>>
    /\ UNCHANGED auxVars

\* The file descriptors a listing of the category folder returns.
list_files ==
    LET held == SelectSeq(FileOrder, LAMBDA f : driveFiles[f] # Absent)
    IN [i \in 1..Len(held) |->
           [id |-> held[i], modifiedTime |-> driveFiles[held[i]]]]

\* One employee of the loop: the index is published, the subfolders and
\* the files of the category folder are listed (an empty list on a caught
\* listing error).
scan_employee(t, listed) ==
    /\ pc[t] = "scan_employee"
    /\ scan_progress' = [scan_progress EXCEPT !.current_employee_index = 1]
    /\ files' = [files EXCEPT ![t] = IF listed THEN list_files ELSE <<>>]
    /\ pc' = [pc EXCEPT ![t] = "scan_file"]
    /\ UNCHANGED <<running, thread, drive_manager, drive_id, last_scan_time,
                   current_time, pending, joining, driveFiles, now,
                   analyzed_time, faults>>
    /\ UNCHANGED <<storeVars, apiVars>>
    /\ UNCHANGED auxVars

\* An injected failure: allowed while the run has failures left.
MayFail == faults < MaxFaults

\* What a step does to the failure count: ok is whether its call went well.
Fault(ok) ==
    /\ ~ok => MayFail
    /\ faults' = IF ok THEN faults ELSE faults + 1

\* The file loop without the cache check: every file goes on to
\* add_to_queue.
scan_check_cache_NoSkip(t, db_ok) ==
    /\ pc[t] = "scan_file"
    /\ files[t] # <<>>
    /\ db_ok
    /\ pc' = [pc EXCEPT ![t] = "scan_enqueue"]
    /\ UNCHANGED <<running, thread, drive_manager, drive_id, last_scan_time,
                   current_time, files, pending, joining, scan_progress,
                   driveFiles, now, analyzed_time, faults>>
    /\ UNCHANGED <<storeVars, apiVars>>
    /\ UNCHANGED auxVars

\* The cache check whose failure leaves scan_employee_folders at once,
\* without the except clause that calls scan_progress.finish().
scan_check_cache_NoFinishOnError(t, db_ok) ==
    /\ pc[t] = "scan_file"
    /\ files[t] # <<>>
    /\ Fault(db_ok)
    /\ IF ~db_ok
         THEN /\ files' = [files EXCEPT ![t] = <<>>]
              /\ scan_returns(t, scan_progress)
         ELSE /\ IF is_already_analyzed(analyzed_cache, Head(files[t]).id,
                                        Head(files[t]).modifiedTime)
                    THEN /\ files' = [files EXCEPT ![t] = Tail(@)]
                         /\ UNCHANGED pc
                    ELSE /\ pc' = [pc EXCEPT ![t] = "scan_enqueue"]
                         /\ UNCHANGED files
              /\ UNCHANGED <<last_scan_time, current_time, scan_progress>>
    /\ UNCHANGED <<running, thread, drive_manager, drive_id, pending, joining,
                   driveFiles, now, analyzed_time>>
    /\ UNCHANGED <<storeVars, apiVars>>
    /\ UNCHANGED auxVars

\* The cache check of the next file: a cached file is skipped, another one
\* goes on to add_to_queue. is_already_analyzed has no handler of its own:
\* when the store fails it raises, the except clause of
\* scan_employee_folders marks the progress finished and the pass returns.
scan_check_cache(t, db_ok) ==
    /\ pc[t] = "scan_file"
    /\ files[t] # <<>>
    /\ Fault(db_ok)
    /\ IF ~db_ok
         THEN /\ files' = [files EXCEPT ![t] = <<>>]
              /\ scan_returns(t, progress_finish(scan_progress))
         ELSE /\ IF is_already_analyzed(analyzed_cache, Head(files[t]).id,
                                        Head(files[t]).modifiedTime)
                    THEN /\ files' = [files EXCEPT ![t] = Tail(@)]
                         /\ UNCHANGED pc
                    ELSE /\ pc' = [pc EXCEPT ![t] = "scan_enqueue"]
                         /\ UNCHANGED files
              /\ UNCHANGED <<last_scan_time, current_time, scan_progress>>
    /\ UNCHANGED <<running, thread, drive_manager, drive_id, pending, joining,
                   driveFiles, now, analyzed_time>>
    /\ UNCHANGED <<storeVars, apiVars>>
    /\ UNCHANGED auxVars

\* add_to_queue for the file and the counters after it. A failing INSERT
\* is caught inside add_to_queue, which returns False; the scanner does not
\* read the result.
scan_enqueue(t, db_ok) ==
    /\ pc[t] = "scan_enqueue"
    /\ Fault(db_ok)
    /\ LET file == Head(files[t])
       IN pending_analysis' =
             IF db_ok
                THEN add_to_queue(pending_analysis, file.id, DriveFileName(file.id))
                ELSE pending_analysis
    /\ scan_progress' = [scan_progress EXCEPT !.total_scanned = @ + 1]
    /\ files' = [files EXCEPT ![t] = Tail(@)]
    /\ pc' = [pc EXCEPT ![t] = "scan_file"]
    /\ UNCHANGED <<running, thread, drive_manager, drive_id, last_scan_time,
                   current_time, pending, joining, driveFiles, now,
                   analyzed_time>>
    /\ UNCHANGED <<rename_suggestions, suggestion_seq, processing_log,
                   analyzed_cache>>
    /\ UNCHANGED apiVars
    /\ UNCHANGED auxVars

\* The files are done: scan_progress.finish() and the return.
scan_finish(t) ==
    /\ pc[t] = "scan_file"
    /\ files[t] = <<>>
    /\ scan_returns(t, progress_finish(scan_progress))
    /\ UNCHANGED <<running, thread, drive_manager, drive_id, files, pending,
                   joining, driveFiles, now, analyzed_time, faults>>
    /\ UNCHANGED <<storeVars, apiVars>>
    /\ UNCHANGED auxVars

\* The fetch in a loop without its try/except: a failing
\* get_pending_documents ends the thread.
process_batch_Uncaught(l, db_ok) ==
    /\ pc[l] = "drain"
    /\ Fault(db_ok)
    /\ LET rows == IF db_ok
                      THEN get_pending_documents(pending_analysis, batch_size)
                      ELSE <<>>
       IN /\ pending' = [pending EXCEPT ![l] = rows]
          /\ pc' = [pc EXCEPT ![l] = IF ~db_ok THEN "dead"
                                     ELSE IF rows = <<>> THEN "sleep"
                                     ELSE "analyze"]
    /\ UNCHANGED <<running, thread, drive_manager, drive_id, last_scan_time,
                   current_time, files, joining, scan_progress, driveFiles,
                   now, analyzed_time>>
    /\ UNCHANGED <<storeVars, apiVars>>
    /\ UNCHANGED auxVars

\* _process_batch, the fetch: without pending rows the cycle goes to sleep.
\* get_pending_documents has no handler of its own: when the store fails
\* it raises out of _process_batch into the except clause of _worker_loop,
\* and the cycle goes to sleep.
process_batch(l, db_ok) ==
    /\ pc[l] = "drain"
    /\ Fault(db_ok)
    /\ LET rows == IF db_ok
                      THEN get_pending_documents(pending_analysis, batch_size)
                      ELSE <<>>
       IN /\ pending' = [pending EXCEPT ![l] = rows]
          /\ pc' = [pc EXCEPT ![l] = IF rows = <<>> THEN "sleep" ELSE "analyze"]
    /\ UNCHANGED <<running, thread, drive_manager, drive_id, last_scan_time,
                   current_time, files, joining, scan_progress, driveFiles,
                   now, analyzed_time>>
    /\ UNCHANGED <<storeVars, apiVars>>
    /\ UNCHANGED auxVars

\* _analyze_document that saves a suggestion for every row it classifies,
\* whether or not the generated name differs.
analyze_document_AlwaysSuggests(l, failing, call_ok) ==
    /\ pc[l] = "analyze"
    /\ Fault(call_ok)
    /\ LET doc == Head(pending[l])
           kind == identify_document_type(doc.file_name, FolderName)
           suggested_name ==
               generate_standardized_name(kind.doc_type, FolderName, EmployeeCode,
                                          EmployeeName, doc.file_name)
           needs_rename == suggested_name # doc.file_name
           classified == call_ok \/ failing # "classify"
           saved == call_ok \/ failing # "save_suggestion"
           cached == call_ok \/ failing # "mark_as_analyzed"
       IN /\ IF classified /\ saved
                THEN /\ rename_suggestions' =
                           save_suggestion(rename_suggestions, suggestion_seq,
                               [file_id |-> doc.file_id,
                                original_name |-> doc.file_name,
                                suggested_name |-> suggested_name])
                     /\ suggestion_seq' = suggestion_seq + 1
                ELSE UNCHANGED <<rename_suggestions, suggestion_seq>>
          /\ scan_progress' =
                [scan_progress EXCEPT
                    !.total_analyzed = @ + 1,
                    !.total_suggestions = IF classified THEN @ + 1 ELSE @]
          /\ analyzed_cache' =
                IF classified /\ cached
                   THEN mark_as_analyzed(analyzed_cache, doc.file_id,
                                         doc.file_name, None, needs_rename)
                   ELSE analyzed_cache
          /\ analyzed_time' =
                IF classified
                   THEN [analyzed_time EXCEPT ![doc.file_id] = driveFiles[doc.file_id]]
                   ELSE analyzed_time
          /\ pc' = [pc EXCEPT ![l] = IF classified THEN "mark" ELSE "log_error"]
    /\ UNCHANGED <<running, thread, drive_manager, drive_id, last_scan_time,
                   current_time, files, pending, joining, driveFiles, now>>
    /\ UNCHANGED <<pending_analysis, processing_log>>
    /\ UNCHANGED apiVars
    /\ UNCHANGED auxVars

\* _analyze_document for the next row of the batch: the counters, the
\* classification, the suggestion when the generated name differs, and the
\* cache row, whose modified_time is doc.get('modified_time') of a row of
\* pending_analysis, a table without that column. call_ok is whether the
\* one call that fails in this step, if any, went well (save_suggestion can
\* fail only where it is called): the classification
\* raises into the except clause of _process_batch; save_suggestion and
\* mark_as_analyzed catch their own failure and the analysis goes on.
analyze_document(l, failing, call_ok) ==
    /\ pc[l] = "analyze"
    /\ Fault(call_ok)
    /\ LET doc == Head(pending[l])
           kind == identify_document_type(doc.file_name, FolderName)
           suggested_name ==
               generate_standardized_name(kind.doc_type, FolderName, EmployeeCode,
                                          EmployeeName, doc.file_name)
           needs_rename == suggested_name # doc.file_name
           classified == call_ok \/ failing # "classify"
           saved == call_ok \/ failing # "save_suggestion"
           cached == call_ok \/ failing # "mark_as_analyzed"
       IN /\ (failing = "save_suggestion" /\ ~call_ok) => needs_rename
          /\ IF classified /\ needs_rename /\ saved
                THEN /\ rename_suggestions' =
                           save_suggestion(rename_suggestions, suggestion_seq,
                               [file_id |-> doc.file_id,
                                original_name |-> doc.file_name,
                                suggested_name |-> suggested_name])
                     /\ suggestion_seq' = suggestion_seq + 1
                ELSE UNCHANGED <<rename_suggestions, suggestion_seq>>
          /\ scan_progress' =
                [scan_progress EXCEPT
                    !.total_analyzed = @ + 1,
                    !.total_suggestions =
                        IF classified /\ needs_rename THEN @ + 1 ELSE @]
          /\ analyzed_cache' =
                IF classified /\ cached
                   THEN mark_as_analyzed(analyzed_cache, doc.file_id,
                                         doc.file_name, None, needs_rename)
                   ELSE analyzed_cache
          /\ analyzed_time' =
                IF classified
                   THEN [analyzed_time EXCEPT ![doc.file_id] = driveFiles[doc.file_id]]
                   ELSE analyzed_time
          /\ pc' = [pc EXCEPT ![l] = IF classified THEN "mark" ELSE "log_error"]
    /\ UNCHANGED <<running, thread, drive_manager, drive_id, last_scan_time,
                   current_time, files, pending, joining, driveFiles, now>>
    /\ UNCHANGED <<pending_analysis, processing_log>>
    /\ UNCHANGED apiVars
    /\ UNCHANGED auxVars

\* mark_as_processed for the row just analyzed. It has no handler of its
\* own: when the store fails it raises into the except clause of
\* _process_batch and the row keeps its status.
mark_processed(l, db_ok) ==
    /\ pc[l] = "mark"
    /\ Fault(db_ok)
    /\ pending_analysis' =
          IF db_ok
             THEN mark_as_processed(pending_analysis, Head(pending[l]).file_id)
             ELSE pending_analysis
    /\ pc' = [pc EXCEPT ![l] = IF db_ok THEN "log" ELSE "log_error"]
    /\ UNCHANGED <<running, thread, drive_manager, drive_id, last_scan_time,
                   current_time, files, pending, joining, scan_progress,
                   driveFiles, now, analyzed_time>>
    /\ UNCHANGED <<rename_suggestions, suggestion_seq, processing_log,
                   analyzed_cache>>
    /\ UNCHANGED apiVars
    /\ UNCHANGED auxVars

\* The end of the handling of a row, after its log_processing call: the
\* loop goes to the next row of the batch, or to sleep after the last.
next_document(l) ==
    /\ pending' = [pending EXCEPT ![l] = Tail(@)]
    /\ pc' = [pc EXCEPT ![l] = IF Tail(pending[l]) = <<>> THEN "sleep" ELSE "analyze"]

\* log_processing(file_id, 'analyzed') and the step to the next row. A
\* failing INSERT is caught inside log_processing.
log_analyzed(l, db_ok) ==
    /\ pc[l] = "log"
    /\ Fault(db_ok)
    /\ processing_log' =
          IF db_ok
             THEN log_processing(processing_log, Head(pending[l]).file_id, "analyzed")
             ELSE processing_log
    /\ next_document(l)
    /\ UNCHANGED <<running, thread, drive_manager, drive_id, last_scan_time,
                   current_time, files, joining, scan_progress, driveFiles,
                   now, analyzed_time>>
    /\ UNCHANGED <<pending_analysis, rename_suggestions, suggestion_seq,
                   analyzed_cache>>
    /\ UNCHANGED apiVars
    /\ UNCHANGED auxVars

\* The except clause of the batch loop: log_processing(file_id, 'error')
\* and the step to the next row.
log_error(l, db_ok) ==
    /\ pc[l] = "log_error"
    /\ Fault(db_ok)
    /\ processing_log' =
          IF db_ok
             THEN log_processing(processing_log, Head(pending[l]).file_id, "error")
             ELSE processing_log
    /\ next_document(l)
    /\ UNCHANGED <<running, thread, drive_manager, drive_id, last_scan_time,
                   current_time, files, joining, scan_progress, driveFiles,
                   now, analyzed_time>>
    /\ UNCHANGED <<pending_analysis, rename_suggestions, suggestion_seq,
                   analyzed_cache>>
    /\ UNCHANGED apiVars
    /\ UNCHANGED auxVars

\* time.sleep(self.interval) is over.
wake(l) ==
    /\ pc[l] = "sleep"
    /\ pc' = [pc EXCEPT ![l] = "loop"]
    /\ UNCHANGED <<running, thread, drive_manager, drive_id, last_scan_time,
                   current_time, files, pending, joining, scan_progress,
                   driveFiles, now, analyzed_time, faults>>
    /\ UNCHANGED <<storeVars, apiVars>>
    /\ UNCHANGED auxVars

\* ------------------------------------------------------------ environment
\* A file of the tree is modified: its modifiedTime moves on.
touch_file(f) ==
    /\ driveFiles[f] = "t1"
    /\ driveFiles' = [driveFiles EXCEPT ![f] = "t2"]
    /\ UNCHANGED <<running, thread, drive_manager, drive_id, last_scan_time,
                   pc, current_time, files, pending, joining, scan_progress,
                   now, analyzed_time, faults>>
    /\ UNCHANGED <<storeVars, apiVars>>
    /\ UNCHANGED auxVars

\* The wall clock advances by one tick.
tick ==
    /\ now < MaxTime
    /\ now' = now + 1
    /\ UNCHANGED <<running, thread, drive_manager, drive_id, last_scan_time,
                   pc, current_time, files, pending, joining, scan_progress,
                   driveFiles, analyzed_time, faults>>
    /\ UNCHANGED <<storeVars, apiVars>>
    /\ UNCHANGED auxVars

\* The application as app.py wires it: the worker is started and
\* configured by requests, never stopped; scans are scheduled by the loop
\* or requested ad hoc.
Next ==
    \/ set_drive_manager
    \/ configure_auto_scan
    \/ start
    \/ \E t \in AdhocIds : api_scan_all_documents(t)
    \/ \E l \in LoopIds : worker_loop(l)
    \/ \E t \in Threads : scan_start(t)
    \/ \E t \in Threads, listed \in BOOLEAN : scan_list_employees(t, listed)
    \/ \E t \in Threads, listed \in BOOLEAN : scan_employee(t, listed)
    \/ \E t \in Threads : scan_check_cache(t, TRUE)
    \/ \E t \in Threads : scan_enqueue(t, TRUE)
    \/ \E t \in Threads : scan_finish(t)
    \/ \E l \in LoopIds : process_batch(l, TRUE)
    \/ \E l \in LoopIds : analyze_document(l, "classify", TRUE)
    \/ \E l \in LoopIds : mark_processed(l, TRUE)
    \/ \E l \in LoopIds : log_analyzed(l, TRUE)
    \/ \E l \in LoopIds : wake(l)
    \/ \E f \in Files : touch_file(f)
    \/ tick

Spec == Init /\ [][Next]_vars

\* The worker with its scheduled scanner pass over a store and a classifier
\* that may fail: every call that can fail does so or not, as long as the
\* run has failures left.
FaultNext ==
    \/ set_drive_manager
    \/ configure_auto_scan
    \/ start
    \/ \E l \in LoopIds : worker_loop(l)
    \/ \E l \in LoopIds : scan_start(l)
    \/ \E l \in LoopIds, listed \in BOOLEAN : scan_list_employees(l, listed)
    \/ \E l \in LoopIds, listed \in BOOLEAN : scan_employee(l, listed)
    \/ \E l \in LoopIds, db_ok \in BOOLEAN : scan_check_cache(l, db_ok)
    \/ \E l \in LoopIds, db_ok \in BOOLEAN : scan_enqueue(l, db_ok)
    \/ \E l \in LoopIds : scan_finish(l)
    \/ \E l \in LoopIds, db_ok \in BOOLEAN : process_batch(l, db_ok)
    \/ \E l \in LoopIds, failing \in AnalysisCalls, call_ok \in BOOLEAN :
          analyze_document(l, failing, call_ok)
    \/ \E l \in LoopIds, db_ok \in BOOLEAN : mark_processed(l, db_ok)
    \/ \E l \in LoopIds, db_ok \in BOOLEAN : log_analyzed(l, db_ok)
    \/ \E l \in LoopIds, db_ok \in BOOLEAN : log_error(l, db_ok)
    \/ \E l \in LoopIds : wake(l)
    \/ \E f \in Files : touch_file(f)
    \/ tick

FaultSpec == Init /\ [][FaultNext]_vars

\* The steps of loop thread l in FaultNext.
FaultStep(l) ==
    \/ worker_loop(l)
    \/ scan_start(l)
    \/ \E listed \in BOOLEAN : scan_list_employees(l, listed)
    \/ \E listed \in BOOLEAN : scan_employee(l, listed)
    \/ \E db_ok \in BOOLEAN : scan_check_cache(l, db_ok)
    \/ \E db_ok \in BOOLEAN : scan_enqueue(l, db_ok)
    \/ scan_finish(l)
    \/ \E db_ok \in BOOLEAN : process_batch(l, db_ok)
    \/ \E failing \in AnalysisCalls, call_ok \in BOOLEAN :
          analyze_document(l, failing, call_ok)
    \/ \E db_ok \in BOOLEAN : mark_processed(l, db_ok)
    \/ \E db_ok \in BOOLEAN : log_analyzed(l, db_ok)
    \/ \E db_ok \in BOOLEAN : log_error(l, db_ok)
    \/ wake(l)

\* FaultSpec under the scheduling the code relies on: a started thread
\* keeps being scheduled and its calls return.
FairFaultSpec == FaultSpec /\ \A l \in LoopIds : WF_vars(FaultStep(l))

\* The worker's life cycle, stop() included, over a tree that holds no
\* file: the actions that visit files or drain rows cannot occur.
LifeInit ==
    /\ pending_analysis = <<>>
    /\ rename_suggestions = {}
    /\ suggestion_seq = 0
    /\ processing_log = <<>>
    /\ analyzed_cache = {}
    /\ response = "none"
    /\ request = NoRequest
    /\ running = FALSE
    /\ thread = 0
    /\ drive_manager = FALSE
    /\ drive_id = FALSE
    /\ last_scan_time = -1
    /\ pc = [t \in Threads |-> "unborn"]
    /\ current_time = [t \in LoopIds |-> 0]
    /\ files = [t \in Threads |-> <<>>]
    /\ pending = [t \in LoopIds |-> <<>>]
    /\ joining = FALSE
    /\ scan_progress = [is_scanning |-> FALSE, total_employees |-> 0,
                        current_employee_index |-> 0, total_scanned |-> 0,
                        total_analyzed |-> 0, total_suggestions |-> 0]
    /\ driveFiles = [f \in Files |-> Absent]
    /\ now = 0
    /\ analyzed_time = [f \in Files |-> None]
    /\ faults = 0
    /\ logs = <<>>
    /\ loaded = [t \in Threads |-> NotLoaded]
    /\ increments = 0
    /\ status_reply = <<>>
    /\ name_call = None
    /\ name_result = <<>>
    /\ ListIdle
    /\ QueryIdle
    /\ failing_files = {}

LifeNext ==
    \/ set_drive_manager
    \/ configure_auto_scan
    \/ start
    \/ stop
    \/ stop_join_returns
    \/ \E l \in LoopIds : worker_loop(l)
    \/ \E l \in LoopIds : scan_start(l)
    \/ \E l \in LoopIds, listed \in BOOLEAN : scan_list_employees(l, listed)
    \/ \E l \in LoopIds : process_batch(l, TRUE)
    \/ \E l \in LoopIds : wake(l)
    \/ tick

LifeSpec == LifeInit /\ [][LifeNext]_vars

\* The steps of loop thread l in the life cycle.
LoopStep(l) ==
    \/ worker_loop(l)
    \/ scan_start(l)
    \/ \E listed \in BOOLEAN : scan_list_employees(l, listed)
    \/ process_batch(l, TRUE)
    \/ wake(l)

\* The life cycle under the scheduling the code relies on: a started thread
\* keeps being scheduled, time.sleep(interval) ends, and
\* thread.join(timeout=5) returns.
FairLifeSpec ==
    /\ LifeSpec
    /\ \A l \in LoopIds : WF_vars(LoopStep(l))
    /\ WF_vars(stop_join_returns)

\* ---------------------------------------------------- progress snapshot
\* add_log that appends without dropping the oldest line.
add_log_NoLimit(lg, message) == Append(lg, message)

\* ScanProgress.add_log, inside the lock: the line is appended, and the
\* oldest line is popped when the list has grown past the limit.
add_log(lg, message) ==
    LET appended == Append(lg, message)
    IN IF Len(appended) > LogLimit THEN Tail(appended) ELSE appended

\* lg[-n:].
LastLines(lg, n) ==
    IF Len(lg) > n THEN SubSeq(lg, Len(lg) - n + 1, Len(lg)) ELSE lg

\* ScanProgress.get_status, inside the lock: the fields, the percentage
\* and the last lines of the log.
get_status(p, lg) ==
    [is_scanning |-> p.is_scanning,
     progress_percentage |->
         IF p.total_employees > 0
            THEN (p.current_employee_index * 100) \div p.total_employees
            ELSE 0,
     total_employees |-> p.total_employees,
     current_employee_index |-> p.current_employee_index,
     total_scanned |-> p.total_scanned,
     total_analyzed |-> p.total_analyzed,
     total_suggestions |-> p.total_suggestions,
     logs |-> LastLines(lg, StatusLogs)]

\* The number of the next log line of the run (a line is its number).
NextLine == IF logs = <<>> THEN 1 ELSE logs[Len(logs)] + 1

\* A thread calls scan_progress.add_log(message).
progress_add_log ==
    /\ status_reply = <<>>
    /\ NextLine <= MaxLogCalls
    /\ logs' = add_log(logs, NextLine)
    /\ UNCHANGED <<loaded, increments, status_reply>>
    /\ UNCHANGED <<storeVars, apiVars, workerVars, nameVars, listVars, queryVars,
                   starveVars>>

\* "scan_progress.total_scanned += 1" of a scanner pass, first half: the
\* thread reads the attribute. The statement is outside the lock, so
\* another thread may run between its read and its write.
total_scanned_load(t) ==
    /\ status_reply = <<>>
    /\ loaded[t] = NotLoaded
    /\ increments + Cardinality({u \in Threads : loaded[u] # NotLoaded}) < MaxIncrements
    /\ loaded' = [loaded EXCEPT ![t] = scan_progress.total_scanned]
    /\ UNCHANGED <<logs, increments, status_reply>>
    /\ UNCHANGED <<storeVars, apiVars, workerVars, nameVars, listVars, queryVars,
                   starveVars>>

\* "scan_progress.total_scanned += 1", second half: the thread writes the
\* value it read plus one.
total_scanned_store(t) ==
    /\ status_reply = <<>>
    /\ loaded[t] # NotLoaded
    /\ scan_progress' = [scan_progress EXCEPT !.total_scanned = loaded[t] + 1]
    /\ loaded' = [loaded EXCEPT ![t] = NotLoaded]
    /\ increments' = increments + 1
    /\ UNCHANGED <<logs, status_reply>>
    /\ UNCHANGED <<running, thread, drive_manager, drive_id, last_scan_time,
                   pc, current_time, files, pending, joining, driveFiles, now,
                   analyzed_time, faults>>
    /\ UNCHANGED <<storeVars, apiVars, nameVars, listVars, queryVars, starveVars>>

\* GET /api/worker/progress: the handler calls scan_progress.get_status().
api_worker_progress ==
    /\ status_reply = <<>>
    /\ status_reply' = <<get_status(scan_progress, logs)>>
    /\ UNCHANGED <<logs, loaded, increments>>
    /\ UNCHANGED <<storeVars, apiVars, workerVars, nameVars, listVars, queryVars,
                   starveVars>>

\* The handler returns the dict to the client. The writers are held back
\* while a reply is in flight: the reply is a value local to the handler,
\* no step of theirs reads or changes it.
api_worker_progress_returns ==
    /\ status_reply # <<>>
    /\ status_reply' = <<>>
    /\ UNCHANGED <<logs, loaded, increments>>
    /\ UNCHANGED <<storeVars, apiVars, workerVars, nameVars, listVars, queryVars,
                   starveVars>>

\* The progress snapshot with its writers and its reader: threads that
\* log, scanner threads that count a file, requests that read the status.
ProgressNext ==
    \/ progress_add_log
    \/ \E t \in Threads : total_scanned_load(t)
    \/ \E t \in Threads : total_scanned_store(t)
    \/ api_worker_progress
    \/ api_worker_progress_returns

ProgressSpec == Init /\ [][ProgressNext]_vars

\* ------------------------------------------------- the classifier alone
\* Tokens of the file names the classifier is called with.
NameTokens == {"RG", "Joao", "pdf", "_", "."}
\* The file names: every sequence of tokens up to the bound.
FileNames == UNION {[1..n -> NameTokens] : n \in 1..MaxNameLen}
\* Folder types of a call: one of the schema, one outside it.
FolderTypes == {FolderName, "Outros"}
\* Employee names of a call.
EmployeeNames == {EmployeeName, <<"Joao">>}
\* The calls: what _analyze_document passes for a row.
NameCalls ==
    [folder_type : FolderTypes, employee_code : {EmployeeCode},
     employee_name : EmployeeNames, file_name : FileNames]

\* The state before a call of the classifier on some row.
NameInit ==
    /\ Constructed
    /\ name_call \in NameCalls
    /\ name_result = <<>>
    /\ ListIdle
    /\ QueryIdle
    /\ failing_files = {}

\* The classification _analyze_document makes for a row:
\* identify_document_type, then generate_standardized_name.
classify_document ==
    /\ name_result = <<>>
    /\ LET kind == identify_document_type(name_call.file_name,
                                          name_call.folder_type)
       IN name_result' =
             <<[doc_type |-> kind.doc_type,
                confidence |-> kind.confidence,
                suggested_name |->
                    generate_standardized_name(kind.doc_type,
                        name_call.folder_type, name_call.employee_code,
                        name_call.employee_name, name_call.file_name)]>>
    /\ UNCHANGED <<name_call, progressVars, listVars, queryVars, starveVars>>
    /\ UNCHANGED <<storeVars, apiVars, workerVars>>

NameNext == classify_document

NameSpec == NameInit /\ [][NameNext]_vars

\* ------------------------------------------ the classifier, content first
\* Confidences of the content path are fractions, num / den.
\* Document types of keywords_map in dict order (those the texts of the
\* model can hold keywords of), and their keyword lists.
KeywordOrder == <<"RG", "ASO_Admissional">>
Keywords(doc_type) ==
    IF doc_type = "RG"
        THEN {"identidade", "rg", "registro geral", "carteira de identidade", "ssp"}
        ELSE {"aso", "atestado de saúde ocupacional", "admissional",
              "apto para o trabalho"}
AllKeywords == UNION {Keywords(KeywordOrder[i]) : i \in 1..Len(KeywordOrder)}
\* len(keyword.split()).
Words(keyword) ==
    CASE keyword \in {"registro geral"} -> 2
      [] keyword \in {"carteira de identidade"} -> 3
      [] keyword \in {"atestado de saúde ocupacional", "apto para o trabalho"} -> 4
      [] OTHER -> 1

\* Sum of len(keyword.split()) over the keywords found.
RECURSIVE SumWords(_)
SumWords(found) ==
    IF found = {} THEN 0
    ELSE LET keyword == CHOOSE k \in found : TRUE
         IN Words(keyword) + SumWords(found \ {keyword})

\* The score of a type without the division by len(keywords) and without
\* the cap: the sum of the weights.
content_score_Unnormalised(doc_type, text) ==
    [num |-> SumWords(Keywords(doc_type) \cap text.keywords),
     den |-> Cardinality(Keywords(doc_type))]

\* The score of a type for a text: each keyword found adds
\* len(keyword.split()) / len(keywords); the sum is divided by
\* len(keywords) and capped at 1.0.
content_score(doc_type, text) ==
    LET n == Cardinality(Keywords(doc_type))
        sum == SumWords(Keywords(doc_type) \cap text.keywords)
    IN IF sum > n * n THEN [num |-> 1, den |-> 1]
       ELSE [num |-> sum, den |-> n * n]

\* a < b for fractions.
Less(a, b) == a.num * b.den < b.num * a.den

\* The loop over keywords_map: the best score so far and its type, a later
\* type replacing it only with a greater score.
RECURSIVE BestContentMatch(_, _, _)
BestContentMatch(text, i, best) ==
    IF i > Len(KeywordOrder) THEN best
    ELSE LET score == content_score(KeywordOrder[i], text)
         IN BestContentMatch(text, i + 1,
                IF Less(best.confidence, score)
                   THEN [doc_type |-> KeywordOrder[i], confidence |-> score]
                   ELSE best)

\* classify_document_by_content: nothing for a text shorter than 50
\* characters; else the best type, or Desconhecido with the best score
\* when that score is under 0.3.
classify_document_by_content(text, folder_type) ==
    IF text.length < 50
        THEN [doc_type |-> "Desconhecido", confidence |-> [num |-> 0, den |-> 1]]
        ELSE LET best == BestContentMatch(text, 1,
                            [doc_type |-> "Desconhecido",
                             confidence |-> [num |-> 0, den |-> 1]])
             IN IF Less(best.confidence, [num |-> 3, den |-> 10])
                   THEN [doc_type |-> "Desconhecido", confidence |-> best.confidence]
                   ELSE best

\* File names listed as system files, lower-cased.
SystemFiles == {<<"desktop", ".", "ini">>}

\* The text analyze_folder_documents has after its extraction step, for a
\* document whose download, PDF extraction and OCR turned out as the call
\* says: of a PDF the extracted text, or the OCR text when that is shorter
\* than 100 characters and Vision is in use; of an image the OCR text
\* when Vision is in use; else the empty text.
ExtractedLength(c) ==
    IF c.mime_type = "application/pdf"
        THEN IF c.pdf_length < 100 /\ c.use_google_vision
                THEN c.ocr_length ELSE c.pdf_length
        ELSE IF c.mime_type = "image/png" /\ c.use_google_vision
        THEN c.ocr_length
        ELSE 0

\* Content classification was attempted and gave nothing to classify: the
\* analysis raised, the download failed or no text was extracted.
FallsBack(c) == c.raised \/ ~c.downloaded \/ ExtractedLength(c) = 0

\* The filename fallback of analyze_folder_documents without the
\* discount.
filename_fallback_NoDiscount(filename, folder_type) ==
    LET kind == identify_document_type(filename, folder_type)
    IN [doc_type |-> kind.doc_type,
        confidence |-> [num |-> kind.confidence, den |-> 10]]

\* The filename fallback: identify_document_type, its confidence (in
\* tenths) times 0.5.
filename_fallback(filename, folder_type) ==
    LET kind == identify_document_type(filename, folder_type)
    IN [doc_type |-> kind.doc_type,
        confidence |-> [num |-> kind.confidence * 5, den |-> 100]]

\* Documents a folder listing holds, by name.
FolderFileNames ==
    {DriveFileName("f2"), <<"Joao", ".", "pdf">>, <<"desktop", ".", "ini">>}
\* The texts of a document: its keywords, closed under containment of one
\* keyword in another.
KeywordSets ==
    {found \in SUBSET AllKeywords :
        /\ Cardinality(found) <= MaxKeywords
        /\ "carteira de identidade" \in found => "identidade" \in found}
\* Lengths of an extracted text: empty, under 50, under 100, longer.
TextLengths == {0, 30, 60, 200}
\* The calls: one document of the list analyze_folder_documents is given,
\* with what the download and the extraction of its content yield.
FolderCalls ==
    [folder_type : FolderTypes, employee_code : {EmployeeCode},
     employee_name : {EmployeeName}, file_name : FolderFileNames,
     mime_type : {"application/pdf", "image/png", "text/plain"},
     downloaded : BOOLEAN, raised : BOOLEAN, use_google_vision : BOOLEAN,
     pdf_length : TextLengths, ocr_length : TextLengths \ {60},
     keywords : KeywordSets]

\* The state before analyze_folder_documents handles a document.
FolderInit ==
    /\ Constructed
    /\ pending_analysis = <<>>
    /\ name_call \in FolderCalls
    /\ name_result = <<>>
    /\ ListIdle
    /\ QueryIdle
    /\ failing_files = {}

\* One document of analyze_folder_documents: a system file is skipped;
\* else the type and the confidence come from the content, or from the
\* file name when there is no content to classify, and the suggested name
\* and the action follow.
analyze_folder_documents ==
    /\ name_result = <<>>
    /\ LET c == name_call
           kind == IF FallsBack(c)
                      THEN filename_fallback(c.file_name, c.folder_type)
                      ELSE classify_document_by_content(
                               [length |-> ExtractedLength(c),
                                keywords |-> c.keywords], c.folder_type)
           suggested_name ==
               generate_standardized_name(kind.doc_type, c.folder_type,
                   c.employee_code, c.employee_name, c.file_name)
       IN name_result' =
             IF [i \in 1..Len(c.file_name) |-> Lower(c.file_name[i])] \in SystemFiles
                THEN <<[skipped |-> TRUE]>>
                ELSE <<[identified_type |-> kind.doc_type,
                        confidence |-> kind.confidence,
                        suggested_name |-> suggested_name,
                        action |-> IF c.file_name = suggested_name
                                      THEN "keep" ELSE "rename"]>>
    /\ UNCHANGED <<name_call, progressVars, listVars, queryVars, starveVars>>
    /\ UNCHANGED <<storeVars, apiVars, workerVars>>

\* A document is classified by analyze_folder_documents, or by the
\* worker's _analyze_document, whose confidence goes into the suggestion.
FolderNext ==
    \/ analyze_folder_documents
    \/ classify_document

FolderSpec == FolderInit /\ [][FolderNext]_vars

\* ------------------------------------------------------ a folder listing
FolderMime == "application/vnd.google-apps.folder"
\* Items a folder of the shared drive can hold.
DriveItems ==
    {[id |-> "d1", name |-> "1.0 - Ana", mimeType |-> FolderMime],
     [id |-> "d2", name |-> "Modelos", mimeType |-> FolderMime],
     [id |-> "d3", name |-> "Arquivo", mimeType |-> FolderMime],
     [id |-> "d4", name |-> "10 - Doc.pdf", mimeType |-> "application/pdf"],
     [id |-> "d5", name |-> "Ata.pdf", mimeType |-> "application/pdf"]}
\* float('inf'), above every number a name starts with.
Infinity == 1000
\* extract_number: the number a name starts with, or infinity.
extract_number(name) ==
    CASE name = "1.0 - Ana" -> 1
      [] name = "10 - Doc.pdf" -> 10
      [] OTHER -> Infinity
\* The place of a name in the order of str.
NameRank(name) ==
    CASE name = "1.0 - Ana" -> 1
      [] name = "10 - Doc.pdf" -> 2
      [] name = "Arquivo" -> 3
      [] name = "Ata.pdf" -> 4
      [] OTHER -> 5
\* The sort key (extract_number(name), name) of a before that of b.
Before(a, b) ==
    \/ extract_number(a.name) < extract_number(b.name)
    \/ /\ extract_number(a.name) = extract_number(b.name)
       /\ NameRank(a.name) < NameRank(b.name)
RECURSIVE InsertSorted(_, _)
InsertSorted(sorted, x) ==
    IF sorted = <<>> THEN <<x>>
    ELSE IF Before(x, Head(sorted)) THEN <<x>> \o sorted
    ELSE <<Head(sorted)>> \o InsertSorted(Tail(sorted), x)
\* list.sort(key=...): stable.
RECURSIVE SortByNumberAndName(_)
SortByNumberAndName(items) ==
    IF items = <<>> THEN <<>>
    ELSE InsertSorted(SortByNumberAndName(SubSeq(items, 1, Len(items) - 1)),
                      items[Len(items)])

IsFolder(item) == item.mimeType = FolderMime
\* The dict a listing returns for the items it collected.
Listing(items) ==
    [folders |-> SortByNumberAndName(SelectSeq(items, IsFolder)),
     files |-> SortByNumberAndName(SelectSeq(items, LAMBDA i : ~IsFolder(i))),
     total |-> Len(items)]
\* The dict of the except branch.
EmptyListing == [folders |-> <<>>, files |-> <<>>, total |-> 0]

\* What a files().list().execute() request does: it answers, or raises a
\* transient error (SSL, timeout, HTTP 5xx), or another error.
Outcomes == {"ok", "transient", "fatal"}

\* The content of the listed folder, in the order the API pages it.
FolderContents ==
    {content \in UNION {[1..n -> DriveItems] : n \in 0..MaxItems} :
        \A i, j \in 1..Len(content) : content[i] = content[j] => i = j}
ListCalls == [content : FolderContents, max_results : 1..MaxItems]

\* The state when list_files_in_shared_drive is called.
ListInit ==
    /\ Constructed
    /\ name_call = None
    /\ name_result = <<>>
    /\ list_call \in ListCalls
    /\ list_pc = "called"
    /\ all_files = <<>>
    /\ page_token = 0
    /\ attempt = 0
    /\ last_error = None
    /\ list_result = <<>>
    /\ QueryIdle
    /\ failing_files = {}

Min(a, b) == IF a < b THEN a ELSE b

\* list_files_in_shared_drive up to its loop: all_files = [],
\* page_token = None.
list_files_in_shared_drive ==
    /\ list_pc = "called"
    /\ list_pc' = "request"
    /\ all_files' = <<>>
    /\ page_token' = 0
    /\ UNCHANGED <<list_call, attempt, last_error, list_result>>
    /\ UNCHANGED <<storeVars, apiVars, workerVars, progressVars, nameVars,
                   queryVars, starveVars>>

\* One pass of the loop: files().list(**params).execute() for the page at
\* page_token, called directly.  An answer extends all_files; the loop
\* ends without a next page or with max_results items, and the sorted
\* listing is returned.  Any exception leaves the loop for the except
\* branch of the method, which returns the empty listing.
list_execute(outcome) ==
    /\ list_pc = "request"
    /\ IF outcome = "ok"
          THEN LET pageSize == Min(list_call.max_results, MaxPageSize)
                   last == Min(page_token + pageSize, Len(list_call.content))
                   collected == all_files \o
                       SubSeq(list_call.content, page_token + 1, last)
                   nextPageToken == IF last < Len(list_call.content)
                                       THEN last ELSE 0
                   ends == \/ nextPageToken = 0
                           \/ Len(collected) >= list_call.max_results
               IN /\ all_files' = collected
                  /\ page_token' = nextPageToken
                  /\ attempt' = IF ends THEN attempt + 1 ELSE 0
                  /\ list_pc' = IF ends THEN "returned" ELSE "request"
                  /\ list_result' = IF ends THEN <<Listing(collected)>>
                                            ELSE list_result
                  /\ UNCHANGED last_error
          ELSE /\ attempt' = attempt + 1
               /\ last_error' = outcome
               /\ list_pc' = "returned"
               /\ list_result' = <<EmptyListing>>
               /\ UNCHANGED <<all_files, page_token>>
    /\ UNCHANGED list_call
    /\ UNCHANGED <<storeVars, apiVars, workerVars, progressVars, nameVars,
                   queryVars, starveVars>>

ListNext ==
    \/ list_files_in_shared_drive
    \/ \E outcome \in Outcomes : list_execute(outcome)

ListSpec == ListInit /\ [][ListNext]_vars

\* ---------------------------------------- queue and cache calls by a client
\* File ids a client enqueues: more than a batch of MaxLimit holds.
QueueFileIds == Files \cup {"f3"}
\* Values of modified_time a caller passes: none, or what the listing gave.
PassedTimes == ModTimes \cup {None}

\* analysis_queue.add_to_queue(file_id, file_name, ...): returns True.
AddToQueue(f) ==
    /\ pending_analysis' = add_to_queue(pending_analysis, f, DriveFileName(f))
    /\ response' = "True"
    /\ query' = NoQuery
    /\ query_result' = <<>>
    /\ UNCHANGED <<rename_suggestions, suggestion_seq, processing_log,
                   analyzed_cache, request>>
    /\ UNCHANGED <<workerVars, progressVars, nameVars, listVars, starveVars>>

\* analysis_queue.mark_as_processed(file_id).
MarkAsProcessed(f) ==
    /\ pending_analysis' = mark_as_processed(pending_analysis, f)
    /\ query' = NoQuery
    /\ query_result' = <<>>
    /\ UNCHANGED <<rename_suggestions, suggestion_seq, processing_log,
                   analyzed_cache>>
    /\ UNCHANGED <<apiVars, workerVars, progressVars, nameVars, listVars,
                   starveVars>>

\* analysis_queue.mark_as_analyzed(file_id, file_name, modified_time, ...).
MarkAsAnalyzed(f, modified_time) ==
    /\ analyzed_cache' = mark_as_analyzed(analyzed_cache, f, DriveFileName(f),
                                          modified_time, FALSE)
    /\ query' = NoQuery
    /\ query_result' = <<>>
    /\ UNCHANGED <<pending_analysis, rename_suggestions, suggestion_seq,
                   processing_log>>
    /\ UNCHANGED <<apiVars, workerVars, progressVars, nameVars, listVars,
                   starveVars>>

\* analysis_queue.get_pending_documents(limit): a SELECT, nothing written.
GetPendingDocuments(limit) ==
    /\ query' = [op |-> "get_pending_documents", limit |-> limit]
    /\ query_result' = <<get_pending_documents(pending_analysis, limit)>>
    /\ UNCHANGED <<storeVars, apiVars, workerVars, progressVars, nameVars,
                   listVars, starveVars>>

\* analysis_queue.is_already_analyzed(file_id, modified_time): a SELECT,
\* nothing written.
IsAlreadyAnalyzed(f, modified_time) ==
    /\ query' = [op |-> "is_already_analyzed", file_id |-> f,
                 modified_time |-> modified_time]
    /\ query_result' =
          <<is_already_analyzed(analyzed_cache, f, modified_time)>>
    /\ UNCHANGED <<storeVars, apiVars, workerVars, progressVars, nameVars,
                   listVars, starveVars>>

QueryNext ==
    \/ \E f \in QueueFileIds : AddToQueue(f)
    \/ \E f \in QueueFileIds : MarkAsProcessed(f)
    \/ \E f \in Files, modified_time \in PassedTimes : MarkAsAnalyzed(f, modified_time)
    \/ \E limit \in 1..MaxLimit : GetPendingDocuments(limit)
    \/ \E f \in Files, modified_time \in PassedTimes : IsAlreadyAnalyzed(f, modified_time)

QuerySpec == Init /\ [][QueryNext]_vars

\* ------------------------------------------- identify_document_type alone
\* Tokens of the file names: words the patterns match, a word they do
\* not, and the text of a pattern, lower-cased or not.
IdentifyTokens ==
    {"RG", "identidade", "CPF", "Joao", PatternText("RG"), PatternText("CPF"),
     "(CPF|CADASTRO DE PESSOA)"}
IdentifyCalls ==
    [file_name : UNION {[1..n -> IdentifyTokens] : n \in 1..MaxIdentifyLen},
     folder_type : FolderTypes]

IdentifyInit ==
    /\ Constructed
    /\ name_call \in IdentifyCalls
    /\ name_result = <<>>
    /\ ListIdle
    /\ QueryIdle
    /\ failing_files = {}

\* document_analyzer.identify_document_type(filename, folder_type).
identify_document ==
    /\ name_result = <<>>
    /\ name_result' = <<identify_document_type(name_call.file_name,
                                               name_call.folder_type)>>
    /\ UNCHANGED <<name_call, progressVars, listVars, queryVars, starveVars>>
    /\ UNCHANGED <<storeVars, apiVars, workerVars>>

IdentifyNext == identify_document

IdentifySpec == IdentifyInit /\ [][IdentifyNext]_vars

\* ------------------------------------------- _clean_employee_name alone
\* Words of the names: codes as the folders carry them ("12 - Nome",
\* "1.0 - Nome"), the dash, names and a preposition.
CleanWords == {"12", "1.0", "-", "João", "Da", "Silva"}
CleanCalls ==
    [employee_name : UNION {[1..n -> CleanWords] : n \in 0..MaxCleanLen}]

CleanInit ==
    /\ Constructed
    /\ pending_analysis = <<>>
    /\ name_call \in CleanCalls
    /\ name_result = <<>>
    /\ ListIdle
    /\ QueryIdle
    /\ failing_files = {}

\* document_analyzer._clean_employee_name(full_name).
clean_name ==
    /\ name_result = <<>>
    /\ name_result' = <<[cleaned |-> clean_employee_name(name_call.employee_name)]>>
    /\ UNCHANGED <<name_call, progressVars, listVars, queryVars, starveVars>>
    /\ UNCHANGED <<storeVars, apiVars, workerVars>>

CleanNext == clean_name

CleanSpec == CleanInit /\ [][CleanNext]_vars

\* ------------------------------------ the drain with rows that always fail
\* The files of a stored queue one row longer than a batch, oldest first.
RetryOrder == <<"f1", "f2", "f3", "f4", "f5", "f6">>
RetryFiles == {RetryOrder[i] : i \in 1..Len(RetryOrder)}

\* A worker constructed over the queue an earlier run left, all of it
\* pending; some of its rows fail at every classification. No drive is
\* configured, so no pass of the scanner runs.
RetryInit ==
    /\ pending_analysis =
          [i \in 1..Len(RetryOrder) |->
              [file_id |-> RetryOrder[i], file_name |-> DriveFileName(RetryOrder[i]),
               status |-> "pending"]]
    /\ rename_suggestions = {}
    /\ suggestion_seq = 0
    /\ processing_log = <<>>
    /\ analyzed_cache = {}
    /\ response = "none"
    /\ request = NoRequest
    /\ running = FALSE
    /\ thread = 0
    /\ drive_manager = FALSE
    /\ drive_id = FALSE
    /\ last_scan_time = -1
    /\ pc = [t \in Threads |-> "unborn"]
    /\ current_time = [t \in LoopIds |-> 0]
    /\ files = [t \in Threads |-> <<>>]
    /\ pending = [t \in LoopIds |-> <<>>]
    /\ joining = FALSE
    /\ scan_progress = [is_scanning |-> FALSE, total_employees |-> 0,
                        current_employee_index |-> 0, total_scanned |-> 0,
                        total_analyzed |-> 0, total_suggestions |-> 0]
    /\ driveFiles = [f \in RetryFiles |-> "t1"]
    /\ now = 0
    /\ analyzed_time = [f \in RetryFiles |-> None]
    /\ faults = 0
    /\ logs = <<>>
    /\ loaded = [t \in Threads |-> NotLoaded]
    /\ increments = 0
    /\ status_reply = <<>>
    /\ name_call = None
    /\ name_result = <<>>
    /\ ListIdle
    /\ QueryIdle
    /\ failing_files \in SUBSET RetryFiles

\* _analyze_document for the row at hand. For a row that fails, the
\* classification raises after total_analyzed was counted, and the except
\* clause of the batch loop is next; the count, which nothing reads, stops
\* at MaxRetriesKept. Any other row is analyzed.
retry_analyze_document(l) ==
    /\ pc[l] = "analyze"
    /\ IF Head(pending[l]).file_id \in failing_files
          THEN /\ scan_progress' =
                     [scan_progress EXCEPT
                         !.total_analyzed =
                             IF @ < MaxRetriesKept THEN @ + 1 ELSE @]
               /\ pc' = [pc EXCEPT ![l] = "log_error"]
               /\ UNCHANGED <<running, thread, drive_manager, drive_id,
                              last_scan_time, current_time, files, pending,
                              joining, driveFiles, now, analyzed_time, faults>>
               /\ UNCHANGED <<storeVars, apiVars>>
               /\ UNCHANGED auxVars
          ELSE analyze_document(l, "classify", TRUE)

\* log_processing(file_id, 'error', ...) in the except clause, and the
\* step to the next row; of the log, which nothing reads, the last
\* MaxRetriesKept rows are kept.
retry_log_error(l) ==
    /\ pc[l] = "log_error"
    /\ LET logged == log_processing(processing_log, Head(pending[l]).file_id,
                                    "error")
       IN processing_log' =
             IF Len(logged) > MaxRetriesKept
                THEN SubSeq(logged, Len(logged) - MaxRetriesKept + 1, Len(logged))
                ELSE logged
    /\ next_document(l)
    /\ UNCHANGED <<running, thread, drive_manager, drive_id, last_scan_time,
                   current_time, files, joining, scan_progress, driveFiles,
                   now, analyzed_time, faults>>
    /\ UNCHANGED <<pending_analysis, rename_suggestions, suggestion_seq,
                   analyzed_cache>>
    /\ UNCHANGED apiVars
    /\ UNCHANGED auxVars

\* log_processing(file_id, 'analyzed', ...) and the step to the next row,
\* the log kept as in retry_log_error.
retry_log_analyzed(l) ==
    /\ pc[l] = "log"
    /\ LET logged == log_processing(processing_log, Head(pending[l]).file_id,
                                    "analyzed")
       IN processing_log' =
             IF Len(logged) > MaxRetriesKept
                THEN SubSeq(logged, Len(logged) - MaxRetriesKept + 1, Len(logged))
                ELSE logged
    /\ next_document(l)
    /\ UNCHANGED <<running, thread, drive_manager, drive_id, last_scan_time,
                   current_time, files, joining, scan_progress, driveFiles,
                   now, analyzed_time, faults>>
    /\ UNCHANGED <<pending_analysis, rename_suggestions, suggestion_seq,
                   analyzed_cache>>
    /\ UNCHANGED apiVars
    /\ UNCHANGED auxVars

\* The steps of loop thread l.
RetryStep(l) ==
    \/ worker_loop(l)
    \/ process_batch(l, TRUE)
    \/ retry_analyze_document(l)
    \/ mark_processed(l, TRUE)
    \/ retry_log_analyzed(l)
    \/ retry_log_error(l)
    \/ wake(l)

RetryNext ==
    \/ start
    \/ \E l \in LoopIds : RetryStep(l)

RetrySpec == RetryInit /\ [][RetryNext]_vars

\* The loop thread keeps running: a step it can take is taken.
FairRetrySpec == RetrySpec /\ \A l \in LoopIds : WF_vars(RetryStep(l))

\* ================================================================= claims

\* Rows of pending_analysis for a file.
PendingRows(tbl, f) == {i \in 1..Len(tbl) : tbl[i].file_id = f}

\* C1: the pending queue holds at most one row per file_id in every state,
\* whatever the interleaving of the scheduled and the ad-hoc scanner pass;
\* and an enqueue of a file_id that already has a row adds no row and
\* leaves the table, the status of the existing row included, as it was.
C1_EnqueueIdempotent ==
    /\ [](\A f \in Files : Cardinality(PendingRows(pending_analysis, f)) <= 1)
    /\ [][\A t \in Threads :
            (/\ pc[t] = "scan_enqueue"
             /\ pc'[t] = "scan_file"
             /\ PendingRows(pending_analysis, Head(files[t]).id) # {})
               => pending_analysis' = pending_analysis]_vars

\* C1 witness: more enqueues were counted in the current pass than the
\* queue has rows, and a processed row is still processed.
C1_Witness ==
    /\ scan_progress.total_scanned > Len(pending_analysis)
    /\ \E i \in 1..Len(pending_analysis) : pending_analysis[i].status = "processed"

\* C2: when a scanner pass visits a file for which the cache check is true
\* with the modifiedTime the listing gave, the visit ends by moving on to
\* the next file: the pass never reaches add_to_queue for it and the
\* pending queue is unchanged.
C2_CachedFileSkipped ==
    [][\A t \in Threads :
          (/\ pc[t] = "scan_file"
           /\ files[t] # <<>>
           /\ is_already_analyzed(analyzed_cache, Head(files[t]).id,
                                  Head(files[t]).modifiedTime)
           /\ (pc'[t] # pc[t] \/ files'[t] # files[t]))
             => (/\ pc'[t] = "scan_file"
                 /\ files'[t] = Tail(files[t])
                 /\ pending_analysis' = pending_analysis)]_vars

\* C2 witness: the scheduled pass, the only one so far, has passed the
\* cached file f1 without counting an enqueue and is at the next file.
C2_Witness ==
    /\ \A t \in AdhocIds : pc[t] = "unborn"
    /\ \E l \in LoopIds :
          /\ pc[l] = "scan_file"
          /\ Len(files[l]) = 1
          /\ Head(files[l]).id = "f2"
    /\ scan_progress.total_scanned = 0
    /\ is_already_analyzed(analyzed_cache, "f1", driveFiles["f1"])

\* C3 (as claimed): when a scanner pass is done with a file whose pending
\* row is processed, which has a cache row, and whose modifiedTime in the
\* listing (the file's current one) differs from the one it had when it
\* was analyzed, the pending queue holds a row with status pending for the
\* file.
C3_ModifiedFileReenqueued ==
    [][\A t \in Threads :
          (/\ files[t] # <<>>
           /\ files'[t] = Tail(files[t])
           /\ \E i \in PendingRows(pending_analysis, Head(files[t]).id) :
                 pending_analysis[i].status = "processed"
           /\ \E r \in analyzed_cache : r.file_id = Head(files[t]).id
           /\ analyzed_time[Head(files[t]).id] # None
           /\ Head(files[t]).modifiedTime # analyzed_time[Head(files[t]).id]
           /\ Head(files[t]).modifiedTime = driveFiles[Head(files[t]).id])
             => \E i \in PendingRows(pending_analysis', Head(files[t]).id) :
                   pending_analysis'[i].status = "pending"]_vars

\* C4: after any sequence of save_suggestion calls the suggestion table
\* holds at most one row per file_id; a save_suggestion for a file leaves
\* exactly one row for it, carrying the saved fields, a fresh id and status
\* pending; no other step changes the id, file or names of a row; and the
\* rows get_pending_suggestions returns never share a file_id.
C4_SuggestionReplaceLaw ==
    /\ [](\A r1 \in rename_suggestions, r2 \in rename_suggestions :
             r1.file_id = r2.file_id => r1 = r2)
    /\ [](\A r1 \in get_pending_suggestions(rename_suggestions),
              r2 \in get_pending_suggestions(rename_suggestions) :
             r1.file_id = r2.file_id => r1 = r2)
    /\ [][\A f \in Files, name \in SuggestedNames :
            SaveSuggestion(f, name) =>
               {r \in rename_suggestions' : r.file_id = f} =
                  {[id |-> suggestion_seq + 1, file_id |-> f,
                    original_name |-> DriveFileName(f),
                    suggested_name |-> name, status |-> "pending",
                    approved_by |-> None]}]_vars
    /\ [][\A r2 \in rename_suggestions' :
            \/ \E r \in rename_suggestions :
                  /\ r.id = r2.id
                  /\ r.file_id = r2.file_id
                  /\ r.original_name = r2.original_name
                  /\ r.suggested_name = r2.suggested_name
            \/ /\ suggestion_seq' = suggestion_seq + 1
               /\ r2.id = suggestion_seq']_vars

\* C4 witness: a file was upserted twice and holds one row, the second.
C4_Witness ==
    /\ suggestion_seq = 2
    /\ \E r \in rename_suggestions :
          r.id = 2 /\ rename_suggestions = {r} /\ r.status = "rejected"

\* The statuses the design calls terminal.
TerminalStatuses == {"applied", "failed", "rejected"}

\* C5 (as claimed): a suggestion whose status is applied, failed or
\* rejected keeps that status in every later state.
C5_TerminalStatusLaw ==
    [][\A r \in rename_suggestions : \A r2 \in rename_suggestions' :
          (r.status \in TerminalStatuses /\ r2.id = r.id) => r2.status = r.status]_vars

\* C6 (as claimed): approve_suggestion with an id that matches no row
\* returns a failure and leaves every table unchanged.
C6_ApproveUnknownIsNotFound ==
    [][\A i \in SuggestionIds, by \in Approvers :
          (ApproveSuggestion(i, by) /\ get_suggestion(rename_suggestions, i) = {})
             => (response' # "True" /\ UNCHANGED storeVars)]_vars

\* C7 (as claimed): reject_suggestion with an id that matches no row does
\* not report success and changes no suggestion row.
C7_RejectUnknownIsNotFound ==
    [][\A i \in SuggestionIds :
          (RejectSuggestion(i) /\ get_suggestion(rename_suggestions, i) = {})
             => (response' # "True" /\ UNCHANGED rename_suggestions)]_vars

\* C8: while running is set, no step (a start() call among them) replaces
\* the worker's thread handle or brings a loop thread to life; and a
\* start() call made while running is set changes no variable at all.
C8_StartWhileRunningIsNoOp ==
    /\ [][running => (/\ thread' = thread
                      /\ \A l \in LoopIds : pc[l] = "unborn" => pc'[l] = "unborn")]_vars
    /\ [][(running /\ start) => UNCHANGED vars]_vars

\* C8 witness: the worker is running on its thread, and a further loop
\* thread could still be created.
C8_Witness ==
    /\ running
    /\ thread # 0
    /\ pc[thread] \notin {"unborn", "dead"}
    /\ \E l \in LoopIds : pc[l] = "unborn"

\* Every loop thread that was started has ended.
AllLoopsEnded == \A l \in LoopIds : pc[l] \in {"unborn", "dead"}

\* C9: once running is cleared, either a start() sets it again or every
\* loop thread ends; and a stop() call waiting in the join returns,
\* whatever the loop thread is doing.
C9_StopTerminatesLoop ==
    /\ (~running) ~> (running \/ AllLoopsEnded)
    /\ joining ~> ~joining
    /\ [](joining => ENABLED stop_join_returns)

\* C9 witness: stop() has returned and the loop thread it stopped is dead.
C9_Witness ==
    /\ ~running
    /\ ~joining
    /\ thread # 0
    /\ pc[thread] = "dead"

ScanBody == {"scan_employees", "scan_employee", "scan_file", "scan_enqueue"}

CurrentDoc(l) == Head(pending[l])

\* The step of l ends the handling of its current row.
HandlingEnds(l) ==
    /\ pc[l] \in {"log", "log_error"}
    /\ pc'[l] # pc[l] \/ pending'[l] # pending[l]

\* C11: a classification or persistence failure while one
\* entry is handled is recorded with a log row whose action is error for
\* that file_id. An entry whose handling ends without a cache row had its
\* cache write fail; when a log row is written at that end, the claim
\* makes it an error row for the file.
C11_FailureLoggedAsError ==
    [][\A l \in LoopIds :
          (/\ HandlingEnds(l)
           /\ Len(processing_log') = Len(processing_log) + 1
           /\ \/ pc[l] = "log_error"
              \/ ~ \E r \in analyzed_cache : r.file_id = CurrentDoc(l).file_id)
             => processing_log'[Len(processing_log')] =
                   [file_id |-> CurrentDoc(l).file_id, action |-> "error"]]_vars

\* C12: an entry whose handling fails is left with status processed: when
\* the except clause of the batch loop is done with an entry, the row of
\* that file_id in the pending queue has status processed.
C12_FailedEntryLeftProcessed ==
    [][\A l \in LoopIds :
          (pc[l] = "log_error" /\ HandlingEnds(l))
             => \A i \in PendingRows(pending_analysis', CurrentDoc(l).file_id) :
                    pending_analysis'[i].status = "processed"]_vars

\* C13: no failure inside a cycle ends the loop thread. A loop thread never
\* ends while the worker runs; a failing step inside the scanner pass
\* leaves the pass for the drain of the same cycle, a failing fetch of the
\* batch sends the cycle to its sleep, and a sleeping loop wakes into the
\* next cycle.
C13_LoopSurvivesFailures ==
    /\ [](\A l \in LoopIds : pc[l] = "dead" => ~running)
    /\ [][\A l \in LoopIds :
            (faults' = faults + 1 /\ pc[l] = "drain") => pc'[l] = "sleep"]_vars
    /\ [][\A l \in LoopIds :
            (faults' = faults + 1 /\ pc[l] \in ScanBody /\ pc'[l] \notin ScanBody)
               => pc'[l] = "drain"]_vars
    /\ [][\A l \in LoopIds :
            (pc[l] = "sleep" /\ pc'[l] # pc[l]) => pc'[l] = "loop"]_vars

\* C13 witness: with no drive configured the fetch of the batch failed: the
\* stored row is still pending, nothing was analyzed or logged, and the
\* loop sleeps until its next cycle.
C13_Witness ==
    \E l \in LoopIds :
        /\ pc[l] = "sleep"
        /\ running
        /\ ~drive_manager
        /\ ~drive_id
        /\ faults = 1
        /\ Len(pending_analysis) = 1
        /\ pending_analysis[1].status = "pending"
        /\ scan_progress.total_analyzed = 0
        /\ processing_log = <<>>

\* C14: no write of the store raises to its caller: after a write that
\* failed, the caller is where it is after a write that went well (the
\* failure is a result value it may read, never an exception that moves
\* it to an except clause).
C14_StoreWritesNeverRaise ==
    /\ [][\A l \in LoopIds : scan_enqueue(l, FALSE) => pc'[l] = "scan_file"]_vars
    /\ [][\A l \in LoopIds :
            (\/ analyze_document(l, "save_suggestion", FALSE)
             \/ analyze_document(l, "mark_as_analyzed", FALSE))
               => pc'[l] = "mark"]_vars
    /\ [][\A l \in LoopIds : mark_processed(l, FALSE) => pc'[l] = "log"]_vars
    /\ [][\A l \in LoopIds :
            (log_analyzed(l, FALSE) \/ log_error(l, FALSE))
               => pc'[l] \in {"analyze", "sleep"}]_vars

\* C15: a scanner pass that has reset the progress snapshot leaves its body
\* (fairly scheduled, it always does) only by marking the snapshot
\* finished and returning to the loop, on completion and on a caught error
\* alike; and no step takes a row out of the pending queue, so every row
\* enqueued before an error is in the queue afterwards.
C15_ScanAlwaysFinishesProgress ==
    /\ \A l \in LoopIds : (pc[l] \in ScanBody) ~> (pc[l] \notin ScanBody)
    /\ [](\A l \in LoopIds : pc[l] \in ScanBody => scan_progress.is_scanning)
    /\ [][\A l \in LoopIds :
            (pc[l] \in ScanBody /\ pc'[l] \notin ScanBody)
               => (pc'[l] = "drain" /\ ~scan_progress'.is_scanning)]_vars
    /\ [][/\ Len(pending_analysis') >= Len(pending_analysis)
          /\ \A i \in 1..Len(pending_analysis) :
                pending_analysis'[i].file_id = pending_analysis[i].file_id]_vars

\* C15 witness: the pass enqueued the first file, the cache check of the
\* second failed, and the pass is over: the snapshot is finished, the loop
\* is at its drain and the row of the first file is in the queue.
C15_Witness ==
    \E l \in LoopIds :
        /\ pc[l] = "drain"
        /\ faults = 1
        /\ ~scan_progress.is_scanning
        /\ scan_progress.total_scanned = 1
        /\ scan_progress.total_employees = 1
        /\ files[l] = <<>>
        /\ pending_analysis =
              <<[file_id |-> "f1", file_name |-> DriveFileName("f1"),
                 status |-> "pending"]>>

\* C20: the analysis of a dequeued entry creates or replaces the suggestion
\* of its file_id exactly when the generated name differs from the
\* original file name; when the names are equal no suggestion row is
\* created or changed, and the cache row of the file, written with
\* needs_rename false, is the only change the analysis makes to the store.
C20_SuggestionIffNameDiffers ==
    [][\A l \in LoopIds :
          (pc[l] = "analyze" /\ pc'[l] = "mark")
             => LET doc == CurrentDoc(l)
                    kind == identify_document_type(doc.file_name, FolderName)
                    name == generate_standardized_name(kind.doc_type, FolderName,
                                EmployeeCode, EmployeeName, doc.file_name)
                    others(tbl) == {r \in tbl : r.file_id # doc.file_id}
                    own(tbl) == {r \in tbl : r.file_id = doc.file_id}
                IN /\ pending_analysis' = pending_analysis
                   /\ processing_log' = processing_log
                   /\ others(analyzed_cache') = others(analyzed_cache)
                   /\ others(rename_suggestions') = others(rename_suggestions)
                   /\ IF name # doc.file_name
                         THEN /\ \E r \in rename_suggestions' :
                                    /\ own(rename_suggestions') = {r}
                                    /\ r.suggested_name = name
                                    /\ r.status = "pending"
                                    /\ r \notin rename_suggestions
                              /\ \A r \in own(analyzed_cache') : r.needs_rename
                         ELSE /\ rename_suggestions' = rename_suggestions
                              /\ suggestion_seq' = suggestion_seq
                              /\ own(analyzed_cache') =
                                    {[file_id |-> doc.file_id,
                                      file_name |-> doc.file_name,
                                      modified_time |-> None,
                                      needs_rename |-> FALSE]}]_vars

\* C20 witness: the entry was analyzed, its generated name equal to its
\* file name: the cache holds its row with needs_rename false, no
\* suggestion exists, and its row is yet to be marked processed.
C20_Witness ==
    \E l \in LoopIds :
        /\ pc[l] = "mark"
        /\ rename_suggestions = {}
        /\ \E r \in analyzed_cache :
              r.file_id = CurrentDoc(l).file_id /\ ~r.needs_rename
        /\ \E i \in PendingRows(pending_analysis, CurrentDoc(l).file_id) :
              pending_analysis[i].status = "pending"

\* C16: every update of a field of the progress snapshot is made under
\* its lock, so no counter increment is lost: whenever no thread is inside
\* a "total_scanned += 1", total_scanned is the number of such statements
\* done.
C16_NoIncrementLost ==
    (\A t \in Threads : loaded[t] = NotLoaded)
        => scan_progress.total_scanned = increments

\* C17: the rolling log never holds more than LogLimit lines; an add_log
\* on a full log drops exactly the oldest line and keeps the rest in
\* order under the new line, an add_log on a shorter log only appends;
\* and get_status returns the last lines of the log, at most StatusLogs.
C17_RollingLogBounded ==
    /\ [](Len(logs) <= LogLimit)
    /\ [][logs' # logs =>
            \E message \in 1..MaxLogCalls :
                logs' = Append(IF Len(logs) = LogLimit THEN Tail(logs) ELSE logs,
                               message)]_vars
    /\ [][(status_reply = <<>> /\ status_reply' # <<>>) =>
            LET returned == status_reply'[1].logs
                n == Len(returned)
            IN /\ n <= StatusLogs
               /\ n = IF Len(logs) < StatusLogs THEN Len(logs) ELSE StatusLogs
               /\ \A i \in 1..n : returned[i] = logs[Len(logs) - n + i]]_vars

\* C17 witness: more lines were logged than the log holds, so the log is
\* full and its oldest lines are gone, and a get_status call returned its
\* last StatusLogs lines.
C17_Witness ==
    /\ Len(logs) = LogLimit
    /\ logs[1] > 1
    /\ status_reply # <<>>
    /\ Len(status_reply[1].logs) = StatusLogs
    /\ status_reply[1].logs[StatusLogs] = logs[LogLimit]

\* C18: for every input, the name generate_standardized_name returns ends
\* in the extension of the original, holds no two separators in a row and
\* neither begins nor ends with a separator.
C18_GeneratedNameWellFormed ==
    name_result # <<>> =>
        LET name == name_result[1].suggested_name
        IN /\ EndsWith(name, splitext(name_call.file_name))
           /\ \A i \in 1..(Len(name) - 1) : ~(name[i] = "_" /\ name[i + 1] = "_")
           /\ name # <<>> => (name[1] # "_" /\ name[Len(name)] # "_")

\* C19: for the folder "01 - Documentos Pessoais", the file RG_Joao.pdf,
\* employee code 1.0 and employee name João Da Silva Santos, the classifier
\* returns type RG with a confidence from 0.6 to 0.8 and the generated name
\* is RG_João_Santos.pdf.
C19_RgScenario ==
    (/\ name_result # <<>>
     /\ name_call = [folder_type |-> "01 - Documentos Pessoais",
                     employee_code |-> "1.0",
                     employee_name |-> <<"João", "Da", "Silva", "Santos">>,
                     file_name |-> <<"RG", "_", "Joao", ".", "pdf">>])
        => /\ name_result[1].doc_type = "RG"
           /\ name_result[1].confidence \in 6..8
           /\ name_result[1].suggested_name =
                 <<"RG", "_", "João", "_", "Santos", ".", "pdf">>

\* C21: every confidence the classifier produces lies in [0, 1]: that of
\* analyze_folder_documents (from the content or from the file name), a
\* fraction, and that of identify_document_type, in tenths, which the
\* worker puts into the suggestion it saves.
C21_ConfidenceInUnitInterval ==
    name_result # <<>> =>
        LET r == name_result[1]
        IN /\ "identified_type" \in DOMAIN r =>
                 (/\ r.confidence.den > 0
                  /\ 0 <= r.confidence.num
                  /\ r.confidence.num <= r.confidence.den)
           /\ "doc_type" \in DOMAIN r => r.confidence \in 0..10

\* C21 witness: a document classified by its content, with a confidence
\* of 0.3 or more.
C21_Witness ==
    /\ name_result # <<>>
    /\ "identified_type" \in DOMAIN name_result[1]
    /\ ~FallsBack(name_call)
    /\ name_result[1].identified_type = "ASO_Admissional"
    /\ ~Less(name_result[1].confidence, [num |-> 3, den |-> 10])

\* C22: when analyze_folder_documents falls back to the file name because
\* the analysis raised, the download failed or no text was extracted, the
\* confidence it reports is at most half the confidence
\* identify_document_type returns for the same file name and folder.
C22_FallbackConfidenceHalved ==
    (/\ name_result # <<>>
     /\ "identified_type" \in DOMAIN name_result[1]
     /\ FallsBack(name_call))
        => LET kind == identify_document_type(name_call.file_name,
                                              name_call.folder_type)
               confidence == name_result[1].confidence
           IN /\ name_result[1].identified_type = kind.doc_type
              /\ 2 * confidence.num * 10 <= kind.confidence * confidence.den

\* C22 witness: the download of RG_Joao.pdf failed and the document was
\* classified by its name as RG with confidence 0.3.
C22_Witness ==
    /\ name_result # <<>>
    /\ "identified_type" \in DOMAIN name_result[1]
    /\ ~name_call.downloaded
    /\ ~name_call.raised
    /\ name_result[1].identified_type = "RG"
    /\ name_result[1].confidence = [num |-> 30, den |-> 100]

\* C23: a listing that fails on a transient error of the storage service
\* has retried the request: it gives up, with the empty listing, only at
\* the max_retries-th attempt for the page.
C23_TransientErrorRetried ==
    (list_pc = "returned" /\ last_error = "transient") =>
        /\ attempt = max_retries
        /\ list_result = <<EmptyListing>>

\* The places of a thread inside scan_employee_folders.
InScan(place) ==
    place \in {"scan_start", "scan_employees", "scan_employee", "scan_file",
               "scan_enqueue"}

\* C24: in a cycle of the loop a scan starts exactly when auto-scan is
\* configured and either no scan was recorded or scan_interval has
\* elapsed since the start of the last one, so that a scan never starts
\* less than scan_interval after the start of the scan before it; with or
\* without a scan the cycle goes on to the drain, and a scan that returns
\* records the time it started at.
C24_ScanWhenDueThenDrain ==
    [][\A l \in LoopIds :
        /\ (pc[l] = "loop" /\ pc'[l] # "loop" /\ running) =>
              /\ pc'[l] = "scan_start" <=>
                    (drive_id /\ (\/ last_scan_time = -1
                                  \/ now - last_scan_time >= scan_interval))
              /\ pc'[l] \in {"scan_start", "drain"}
              /\ pc'[l] = "scan_start" => current_time'[l] = now
              /\ (pc'[l] = "scan_start" /\ last_scan_time # -1) =>
                    current_time'[l] - last_scan_time >= scan_interval
        /\ (InScan(pc[l]) /\ ~InScan(pc'[l])) =>
              /\ pc'[l] = "drain"
              /\ last_scan_time' = current_time[l]
        /\ (pc'[l] = "drain" /\ pc[l] # "drain") =>
              (InScan(pc[l]) \/ pc[l] = "loop")]_vars

\* C24 witness: a second scan starts, one scan_interval after the first,
\* having drained and skipped the scan in a cycle before.
C24_Witness ==
    \E l \in LoopIds :
        /\ pc[l] = "scan_start"
        /\ last_scan_time = 0
        /\ current_time[l] = scan_interval

\* The file has a row of the pending queue with this status.
HasRow(f, status) ==
    \E i \in 1..Len(pending_analysis) :
        /\ pending_analysis[i].file_id = f
        /\ pending_analysis[i].status = status

\* The steps of one entry of a batch come in the order of
\* _process_batch: the classification with its suggestion and cache row
\* first, while the queue and the log stand still; then the queue row, the
\* suggestions, the cache and the log standing still; then the log row.
DrainOrder(l) ==
    /\ (pc[l] = "analyze" /\ pc'[l] # "analyze") =>
          /\ pc'[l] \in {"mark", "log_error"}
          /\ UNCHANGED <<pending_analysis, processing_log>>
    /\ (pc[l] = "mark" /\ pc'[l] # "mark") =>
          /\ pc'[l] \in {"log", "log_error"}
          /\ UNCHANGED <<rename_suggestions, analyzed_cache, processing_log>>
          /\ pc'[l] = "log" => HasRow(CurrentDoc(l).file_id, "processed")'
    /\ (pc[l] = "log" /\ (pc'[l] # "log" \/ pending'[l] # pending[l])) =>
          /\ UNCHANGED <<pending_analysis, rename_suggestions, analyzed_cache>>
          /\ processing_log' # processing_log =>
                processing_log' = Append(processing_log,
                    [file_id |-> CurrentDoc(l).file_id, action |-> "analyzed"])

\* C25: an entry of a batch is classified, its suggestion (when the name
\* differs) and its cache row are written, its queue row is marked
\* processed and its log row "analyzed" is appended, in this order; so,
\* as long as no call has failed, every processed row has a cache row, and
\* a log row "analyzed" always belongs to a file whose queue row is
\* processed.
C25_DrainStepsInOrder ==
    /\ [][\A l \in LoopIds : DrainOrder(l)]_vars
    /\ [](\A f \in Files :
            /\ (faults = 0 /\ HasRow(f, "processed")) =>
                  \E r \in analyzed_cache : r.file_id = f
            /\ (\E i \in 1..Len(processing_log) :
                    /\ processing_log[i].file_id = f
                    /\ processing_log[i].action = "analyzed")
                  => HasRow(f, "processed"))

\* C25 witness: without any failure, a file was classified, cached,
\* marked processed and logged as analyzed.
C25_Witness ==
    \E f \in Files :
        /\ faults = 0
        /\ HasRow(f, "processed")
        /\ \E r \in analyzed_cache : r.file_id = f
        /\ \E i \in 1..Len(processing_log) :
              /\ processing_log[i].file_id = f
              /\ processing_log[i].action = "analyzed"

\* Indices of the pending rows of the queue.
PendingIndices ==
    {i \in 1..Len(pending_analysis) : pending_analysis[i].status = "pending"}

\* C26: get_pending_documents(limit) returns at most limit rows, every one
\* pending, the k-th row returned being the k-th pending row of the queue
\* in insertion order, so that no pending row enqueued before a returned
\* one is left out; and the call changes no row of the store.
C26_BatchOldestPendingFirst ==
    /\ [](query.op = "get_pending_documents" =>
            LET batch == query_result[1]
            IN /\ Len(batch) <= query.limit
               /\ \A k \in 1..Len(batch) :
                     /\ batch[k].status = "pending"
                     /\ \E i \in PendingIndices :
                           /\ batch[k] = pending_analysis[i]
                           /\ Cardinality({j \in PendingIndices : j < i}) = k - 1)
    /\ [][query'.op = "get_pending_documents" => UNCHANGED storeVars]_vars

\* C26 witness: a batch of limit rows was returned from a queue whose
\* oldest row is processed and which holds a pending row more than the
\* batch.
C26_Witness ==
    /\ query.op = "get_pending_documents"
    /\ Len(query_result[1]) = query.limit
    /\ Len(pending_analysis) > 0
    /\ pending_analysis[1].status = "processed"
    /\ Cardinality(PendingIndices) > query.limit

\* C27: is_already_analyzed(file_id, modified_time) returns True exactly
\* when the cache holds a row for file_id and either no modified_time is
\* passed (None or the empty string the scanner passes for a file without
\* one) or the one passed equals the one stored.
C27_CachedIffRowAndTimeMatches ==
    query.op = "is_already_analyzed" =>
        (query_result[1] <=>
            \E r \in analyzed_cache :
                /\ r.file_id = query.file_id
                /\ \/ query.modified_time \in {None, ""}
                   \/ r.modified_time = query.modified_time)

\* C27 witness: a file cached with one modified_time is asked for with
\* another, and the answer is False.
C27_Witness ==
    /\ query.op = "is_already_analyzed"
    /\ query.modified_time = "t2"
    /\ \E r \in analyzed_cache :
          r.file_id = query.file_id /\ r.modified_time = "t1"
    /\ query_result = <<FALSE>>

\* C28 (as claimed): the cache row the worker wrote for a file that had
\* modifiedTime t1 when it was enqueued and analyzed, and still has it,
\* records t1, so that is_already_analyzed answers True for the file with
\* t1 and the next pass skips it.
C28_CacheRecordsModifiedTime ==
    \A r \in analyzed_cache :
        (driveFiles[r.file_id] = "t1" /\ analyzed_time[r.file_id] = "t1") =>
            /\ r.modified_time = "t1"
            /\ is_already_analyzed(analyzed_cache, r.file_id, "t1")

\* C29 (as claimed): the status of a suggestion changes only from pending
\* to approved or rejected, and from approved to applied or failed: a
\* suggestion becomes applied or failed only out of status approved, which
\* is also the only status a rename is attempted in.
C29_StatusOrder ==
    [][\A r \in rename_suggestions : \A r2 \in rename_suggestions' :
          (r2.id = r.id /\ r2.status # r.status) =>
              \/ r.status = "pending" /\ r2.status \in {"approved", "rejected"}
              \/ r.status = "approved" /\ r2.status \in {"applied", "failed"}]_vars

\* C30: a row of the pending queue, once inserted, stays where it is with
\* its file_id and file_name; its status changes only from pending to
\* processed, and only in the step of a worker thread that marks the row
\* it is handling; no enqueue of the scanner changes an existing row.
C30_PendingRowOnlyMarkedProcessed ==
    [][/\ Len(pending_analysis') >= Len(pending_analysis)
       /\ \A i \in 1..Len(pending_analysis) :
             /\ pending_analysis'[i].file_id = pending_analysis[i].file_id
             /\ pending_analysis'[i].file_name = pending_analysis[i].file_name
             /\ pending_analysis'[i].status # pending_analysis[i].status =>
                   /\ pending_analysis[i].status = "pending"
                   /\ pending_analysis'[i].status = "processed"
                   /\ \E l \in LoopIds :
                         /\ pc[l] = "mark"
                         /\ CurrentDoc(l).file_id = pending_analysis[i].file_id]_vars

\* C30 witness: a scanner pass has enqueued the file of a processed row
\* again, and the row is still processed.
C30_Witness ==
    \E l \in LoopIds :
        /\ pc[l] = "scan_file"
        /\ files[l] = <<>>
        /\ HasRow("f2", "processed")
        /\ is_already_analyzed(analyzed_cache, "f1", driveFiles["f1"])
        /\ scan_progress.total_scanned = 1

\* C31: the audit log is append-only: every step leaves processing_log
\* as it is or appends exactly one row to it, the rows it held staying
\* where and what they were.
C31_LogAppendOnly ==
    [][\/ processing_log' = processing_log
       \/ /\ Len(processing_log') = Len(processing_log) + 1
          /\ SubSeq(processing_log', 1, Len(processing_log)) = processing_log]_vars

\* C31 witness: the log holds two rows of one file, the error of a failed
\* handling and, after it, the row of the handling that succeeded.
C31_Witness ==
    /\ Len(processing_log) = 2
    /\ processing_log[1].action = "error"
    /\ processing_log[2].action = "analyzed"
    /\ processing_log[1].file_id = processing_log[2].file_id

\* The types of the folder whose pattern matches the name of the call, by
\* their place in the pattern table.
MatchingTypes ==
    {i \in 1..Len(PatternOrder) :
        PatternMatches(PatternOrder[i], name_call.file_name)}

\* C32: identify_document_type returns Desconhecido with confidence 0.0
\* when the folder is not in the schema or no pattern of the folder
\* matches; else a matching type with its confidence, 0.8 when the text of
\* its pattern occurs in the lower-cased name and 0.6 when not, no
\* matching type having a greater one and none of the same confidence
\* coming earlier in the table.
C32_BestEarliestMatch ==
    name_result # <<>> =>
        LET r == name_result[1]
        IN IF name_call.folder_type \notin SchemaFolders \/ MatchingTypes = {}
              THEN r = [doc_type |-> "Desconhecido", confidence |-> 0]
              ELSE \E i \in MatchingTypes :
                     /\ r.doc_type = PatternOrder[i]
                     /\ r.confidence =
                           IF PatternLiterallyIn(PatternOrder[i], name_call.file_name)
                              THEN 8 ELSE 6
                     /\ \A j \in MatchingTypes :
                           LET other == MatchConfidence(PatternOrder[j],
                                                        name_call.file_name)
                           IN /\ other <= r.confidence
                              /\ other = r.confidence => i <= j

\* C32 witness: the name matches RG by a word and CPF by the text of its
\* pattern, and CPF, the later type, is returned with 0.8.
C32_Witness ==
    /\ name_result = <<[doc_type |-> "CPF", confidence |-> 8]>>
    /\ 1 \in MatchingTypes
    /\ ~PatternLiterallyIn("RG", name_call.file_name)

\* Employee codes as the folder names carry them.
CodeWords == {"12", "1.0"}
\* The name of the call after its leading code and dash, if it has them.
NameAfterCode ==
    LET name == name_call.employee_name
    IN IF Len(name) >= 2 /\ name[1] \in CodeWords /\ name[2] = "-"
          THEN SubSeq(name, 3, Len(name))
          ELSE name
\* The words of a name joined by "_".
JoinedWords(joined) == [k \in 1..((Len(joined) + 1) \div 2) |-> joined[2 * k - 1]]

\* C33 (as claimed): _clean_employee_name returns, joined by "_", at most
\* three words of the name without its leading code: the first and the
\* last word of that name always, and between them no preposition and no
\* word the name does not hold.
C33_CleanedNameLaw ==
    name_result # <<>> =>
        LET out == JoinedWords(name_result[1].cleaned)
            rest == NameAfterCode
        IN /\ Len(out) <= 3
           /\ rest = <<>> => out = <<>>
           /\ rest # <<>> =>
                 /\ out # <<>>
                 /\ out[1] = rest[1]
                 /\ out[Len(out)] = rest[Len(rest)]
                 /\ \A k \in 2..(Len(out) - 1) :
                       /\ Lower(out[k]) \notin Prepositions
                       /\ \E i \in 2..(Len(rest) - 1) : rest[i] = out[k]

\* C34: when the template of the folder names a replacement field that
\* template.format is not given, or the folder is not in the schema,
\* generate_standardized_name returns the original file name.
C34_FallbackToOriginalName ==
    (/\ name_result # <<>>
     /\ \/ name_call.folder_type \notin SchemaFolders
        \/ ~ (TemplateFields \subseteq FormatArguments))
        => name_result[1].suggested_name = name_call.file_name

\* C34 witness: a file classified as RG in a folder of the schema, whose
\* template names fields that are not supplied, got its own name back.
C34_Witness ==
    /\ name_result # <<>>
    /\ name_call.folder_type \in SchemaFolders
    /\ TemplateFields \ FormatArguments # {}
    /\ name_result[1].doc_type = "RG"
    /\ name_result[1].suggested_name = name_call.file_name

\* C35 (as claimed): while the worker runs, every pending row whose
\* handling does not fail comes to be handled in a batch, and so
\* processed, whatever rows enqueued before it fail at every attempt.
C35_PendingEventuallyHandled ==
    \A f \in RetryFiles :
        (running /\ f \notin failing_files /\ HasRow(f, "pending"))
            ~> HasRow(f, "processed")

\* The loop threads that were started and have not left _worker_loop.
LiveLoops == {l \in LoopIds : pc[l] \notin {"unborn", "dead"}}

\* C37 (as claimed): at any time at most one thread is in _worker_loop,
\* whatever start() and stop() calls were made, a start() after a stop()
\* whose join timed out while the old loop was asleep included.
C37_AtMostOneLoopLive == Cardinality(LiveLoops) <= 1

\* The threads inside a pass of the scanner: past scan_progress.start()
\* and not yet at scan_progress.finish().
PassInProgress ==
    {t \in Threads :
        pc[t] \in {"scan_employees", "scan_employee", "scan_file", "scan_enqueue"}}

\* C38 (as claimed): whatever get_status reads, is_scanning is true while a
\* pass of the scanner is in progress, also when a scheduled and an ad-hoc
\* pass overlap and one of them has finished.
C38_ScanningWhilePassInProgress ==
    PassInProgress # {} => scan_progress.is_scanning

\* C39 (as claimed): whatever get_status returns, progress_percentage is
\* between 0 and 100, and 0 when total_employees is 0, and
\* current_employee_index is at most total_employees, however the passes
\* of the scanner and the drain interleave.
C39_ProgressWithinRange ==
    LET status == get_status(scan_progress, logs)
    IN /\ status.progress_percentage \in 0..100
       /\ status.current_employee_index <= status.total_employees
       /\ status.total_employees = 0 => status.progress_percentage = 0

====
